---- MODULE Spec2Model ----
(***************************************************************************)
(* Model of the stage-invocation core of AITest4All:                       *)
(*   - BaseAgent._call_llm_with_retry (retry, backoff, one-level fallback) *)
(*   - SessionManager (expiring key-value session store on Redis)          *)
(*   - the blocking stage endpoints of api/generate.py                     *)
(*   - the streaming endpoint and handlers of api/websocket.py             *)
(***************************************************************************)
EXTENDS Integers, Sequences, FiniteSets, TLC

(***************************************************************************)
(* Bounds of the model                                                     *)
(***************************************************************************)
\* largest attempt budget (max_retries) an agent is constructed with
MaxRetries == 3
\* number of _call_llm_with_retry invocations made on one agent object
MaxInvocations == 2
\* number of blocking stage requests a client sends
MaxRequests == 3
\* number of fragments a provider answer has, and a streamed action receives
MaxFragments == 2
\* number of scenarios in the data of one "case" action
MaxScenarios == 2
\* number of further messages a client sends after the terminal event
MaxExtra == 2
\* number of sessions created directly on the SessionManager
MaxSessions == 1
\* number of clock steps that make up the session expiry time
TicksPerTtl == 2
\* number of optimize invocations started on a session
MaxTurns == 2
\* SessionManager calls made by the concurrent coroutines
MaxCalls == 3
\* feedback requests sent
MaxFeedback == 2

(***************************************************************************)
(* Vocabulary                                                              *)
(***************************************************************************)
\* model identifiers an agent can be configured with
Models == {"gpt-4", "gpt-3.5-turbo"}
\* fallback_model = None
NoModel == "None"
\* failure classes of one provider call: asyncio.TimeoutError,
\* openai.APIError/APIConnectionError/RateLimitError, any other Exception
ErrorKinds == {"timeout", "transient", "other"}
NoError == "None"

VARIABLES
    \* ---- BaseAgent fields ----
    max_retries,        \* self.max_retries
    fallback_model,     \* self.fallback_model
    model_name,         \* self.model_name (mutated during fallback)
    configured_model,   \* the model_name the constructor was given
    \* ---- one invocation of _call_llm_with_retry ----
    frames,             \* call stack of _call_llm_with_retry activations
    rpc,                \* "idle" | "attempt" | "backoff" | "returned" | "raised"
    stream,             \* the stream argument of the invocation
    calls,              \* provider calls made by the invocation, in order
    backoff,            \* seconds slept by the invocation so far
    result,             \* what the invocation returned or raised
    invocations,        \* invocations started on this agent
    switches,           \* times self.model_name was set to the fallback
    \* ---- Redis, as used by SessionManager ----
    store,              \* key -> [json, ttl] for the keys that exist
    uuid_count,         \* uuid4() values generated so far
    \* ---- one blocking stage request of api/generate.py ----
    api,                \* position, inputs, result and response of the request
    \* ---- the streaming endpoint of api/websocket.py ----
    ws,                 \* per channel: position and locals of websocket_generate
    received,           \* per channel and per handler: the messages the
                        \* channel's socket delivered, in emission order
    active_connections, \* manager.active_connections: session id -> channel
    \* ---- direct callers of SessionManager, optimize invocations ----
    sm,                 \* the last SessionManager call, its return value, and
                        \* the payloads saved and still live
    opt,                \* per invocation: position and locals of optimize_cases
    \* ---- SessionManager calls running at the same time ----
    task,               \* per coroutine: position and locals of its call
    hist,               \* what the calls have written and completed so far
    \* ---- execution tracking of BaseAgent.generate / generate_streaming ----
    gen,                \* position and locals of one invocation, with its
                        \* execution_record dict
    db,                 \* the agent_executions table: execution_id -> row
    feedback,           \* the last record_execution_feedback call
    \* ---- parse_response of the stage agents ----
    doc                 \* a provider response, its parsed payload, and the
                        \* payload parsed again

retryVars == <<max_retries, fallback_model, model_name, configured_model,
               frames, rpc, stream, calls, backoff, result, invocations,
               switches>>

storeVars == <<store, uuid_count>>

vars == <<max_retries, fallback_model, model_name, configured_model,
          frames, rpc, stream, calls, backoff, result, invocations, switches,
          store, uuid_count, api, ws, received, active_connections, sm, opt,
          task, hist, gen, db, feedback, doc>>

smVars == <<sm, opt>>
raceVars == <<task, hist>>
recVars == <<gen, db, feedback>>
apiVars == <<api, uuid_count>>
wsVars == <<ws, received, active_connections>>

(***************************************************************************)
(* BaseAgent._call_llm_with_retry                                          *)
(***************************************************************************)
\* 2 ** attempt
RECURSIVE Pow2(_)
Pow2(n) == IF n = 0 THEN 1 ELSE 2 * Pow2(n - 1)

\* str(e) of the exception of one failed attempt.  asyncio.wait_for raises
\* TimeoutError() without arguments, whose str() is the empty string.
ErrStr(e) ==
    CASE e = "timeout"   -> ""
      [] e = "transient" -> "transient provider error"
      [] e = "other"     -> "other error"
      [] OTHER           -> "None"

\* The exception raised when a budget is exhausted and no fallback is taken.
TerminalError(e, n, provider_model) ==
    [ type     |-> IF e = "timeout" THEN "TimeoutError" ELSE "LLMAPIError",
      code     |-> IF e = "timeout" THEN "TIMEOUT_ERROR" ELSE "LLM_API_ERROR",
      message  |-> CASE e = "timeout"   -> "LLM API call timed out"
                     [] e = "transient" -> "OpenAI API call failed"
                     [] OTHER           -> "LLM API call failed",
      cause    |-> ErrStr(e),
      attempts |-> n,
      model    |-> provider_model,
      details  |-> [primary_model |-> NoModel, fallback_model |-> NoModel,
                    primary_error |-> "None", fallback_error |-> "None"] ]

\* str(exc) of an AppException is its message; the terminal messages embed
\* the attempt count and (for the two LLMAPIError forms) str(e).
ExcStr(err) ==
    [message |-> err.message, attempts |-> err.attempts,
     cause |-> IF err.type = "TimeoutError" THEN "" ELSE err.cause]

\* variant: the wrapper reports the fallback's error under both keys
PrimaryErrorOf_fromFallback(frame, fallback_error) == ExcStr(fallback_error).cause

\* which summary the wrapper stores under details["primary_error"]
PrimaryErrorOf(frame, fallback_error) == ErrStr(frame.last_error)

\* The LLMAPIError raised by the caller's activation when its fallback call
\* raised fallback_error.
BothFailedError(frame, fallback_error) ==
    [ type     |-> "LLMAPIError",
      code     |-> "LLM_API_ERROR",
      message  |-> "Both primary and fallback models failed",
      cause    |-> "",
      attempts |-> 0,
      model    |-> frame.original_model,
      details  |-> [primary_model  |-> frame.original_model,
                    fallback_model |-> fallback_model,
                    primary_error  |-> PrimaryErrorOf(frame, fallback_error),
                    fallback_error |-> ExcStr(fallback_error)] ]

\* An exception leaving the innermost activation travels up the activations
\* that are waiting in their fallback call: each wraps it in turn.
RECURSIVE Propagate(_, _)
Propagate(callers, err) ==
    IF callers = <<>> THEN err
    ELSE Propagate(SubSeq(callers, 1, Len(callers) - 1),
                   BothFailedError(callers[Len(callers)], err))

\* variant: the except branch of the fallback call does not restore the model
ModelAfterFallbackFailure_noRestore(frame) == model_name

\* self.model_name after an activation that took the fallback has caught the
\* fallback's exception
ModelAfterFallbackFailure(frame) == frame.original_model

\* self.model_name after an activation that took the fallback got its result
ModelAfterFallbackSuccess(frame) == frame.original_model

\* new activation: original_model = self.model_name, attempt = 0
NewFrame == [original_model |-> model_name, attempt |-> 0, last_error |-> NoError]

Top == frames[Len(frames)]
Callers == SubSeq(frames, 1, Len(frames) - 1)

NoResult == [status |-> "none"]

\* variant: the fallback is taken whenever one is configured
TakesFallback_noGuard == fallback_model # NoModel

\* the condition under which an exhausted budget switches to the fallback
TakesFallback == fallback_model # NoModel /\ model_name # fallback_model

\* variant: one attempt too many before the budget counts as exhausted
LastAttempt_offByOne == max_retries

\* the last index of range(self.max_retries)
LastAttempt == max_retries - 1

InitRetry ==
    /\ max_retries \in 1..MaxRetries
    /\ fallback_model \in Models \cup {NoModel}
    /\ model_name \in Models
    /\ configured_model = model_name
    /\ frames = <<>>
    /\ rpc = "idle"
    /\ stream = FALSE
    /\ calls = <<>>
    /\ backoff = 0
    /\ result = NoResult
    /\ invocations = 0
    /\ switches = 0

\* entry of _call_llm_with_retry by a stage
CallLLMWithRetry(s) ==
    /\ rpc \in {"idle", "returned", "raised"}
    /\ invocations < MaxInvocations
    /\ invocations' = invocations + 1
    /\ stream' = s
    /\ frames' = <<NewFrame>>
    /\ calls' = <<>>
    /\ backoff' = 0
    /\ result' = NoResult
    /\ rpc' = "attempt"
    /\ UNCHANGED <<max_retries, fallback_model, model_name, configured_model,
                   switches>>

ThisCall(outcome) ==
    [model |-> model_name, attempt |-> Top.attempt + 1,
     depth |-> Len(frames), outcome |-> outcome]

\* the awaited provider call of the current attempt returns: with stream=True
\* _call_openai only builds the generator, so the attempt cannot fail
AttemptSucceeds ==
    /\ rpc = "attempt"
    /\ calls' = Append(calls, ThisCall("ok"))
    /\ model_name' =
          IF Len(frames) > 1 THEN ModelAfterFallbackSuccess(frames[1])
          ELSE IF model_name # Top.original_model THEN Top.original_model
          ELSE model_name
    /\ result' = [status |-> "success", attempts_used |-> Top.attempt + 1,
                  model |-> model_name, error |-> NoError]
    /\ frames' = <<>>
    /\ rpc' = "returned"
    /\ UNCHANGED <<max_retries, fallback_model, configured_model, stream,
                   backoff, invocations, switches>>

\* the attempt fails and the budget is not exhausted: sleep, then continue
AttemptFailsRetry(e) ==
    /\ rpc = "attempt"
    /\ ~stream
    /\ Top.attempt < LastAttempt
    /\ calls' = Append(calls, ThisCall(e))
    /\ frames' = [frames EXCEPT ![Len(frames)].last_error = e]
    /\ rpc' = "backoff"
    /\ UNCHANGED <<max_retries, fallback_model, model_name, configured_model,
                   stream, backoff, result, invocations, switches>>

\* variant: the exponent counts the attempts from 1
WaitTime_oneBased(attempt) == Pow2(attempt + 1)

\* wait_time = 2 ** attempt, attempt being the index of range(max_retries)
WaitTime(attempt) == Pow2(attempt)

\* await asyncio.sleep(wait_time); continue
Backoff ==
    /\ rpc = "backoff"
    /\ backoff' = backoff + WaitTime(Top.attempt)
    /\ frames' = [frames EXCEPT ![Len(frames)].attempt = @ + 1]
    /\ rpc' = "attempt"
    /\ UNCHANGED <<max_retries, fallback_model, model_name, configured_model,
                   stream, calls, result, invocations, switches>>

\* the last attempt of a budget fails and the fallback is taken: the method
\* sets self.model_name and calls itself
AttemptFailsFallback(e) ==
    /\ rpc = "attempt"
    /\ ~stream
    /\ Top.attempt >= LastAttempt
    /\ TakesFallback
    /\ calls' = Append(calls, ThisCall(e))
    /\ model_name' = fallback_model
    /\ frames' = Append([frames EXCEPT ![Len(frames)].last_error = e],
                        [original_model |-> fallback_model, attempt |-> 0,
                         last_error |-> NoError])
    /\ switches' = switches + 1
    /\ rpc' = "attempt"
    /\ UNCHANGED <<max_retries, fallback_model, configured_model, stream,
                   backoff, result, invocations>>

\* the last attempt of a budget fails and no fallback is taken: the typed
\* error is raised, and wrapped by an activation waiting in its fallback call
AttemptFailsTerminal(e) ==
    /\ rpc = "attempt"
    /\ ~stream
    /\ Top.attempt >= LastAttempt
    /\ ~TakesFallback
    /\ calls' = Append(calls, ThisCall(e))
    /\ model_name' = IF Len(frames) > 1 THEN ModelAfterFallbackFailure(frames[1])
                     ELSE model_name
    /\ result' = [status |-> "error", attempts_used |-> Top.attempt + 1,
                  model |-> model_name,
                  error |-> Propagate(Callers,
                              TerminalError(e, max_retries, Top.original_model))]
    /\ frames' = <<>>
    /\ rpc' = "raised"
    /\ UNCHANGED <<max_retries, fallback_model, configured_model, stream,
                   backoff, invocations, switches>>

NextRetry ==
    \/ \E s \in BOOLEAN : CallLLMWithRetry(s)
    \/ AttemptSucceeds
    \/ \E e \in ErrorKinds : AttemptFailsRetry(e)
    \/ Backoff
    \/ \E e \in ErrorKinds : AttemptFailsFallback(e)
    \/ \E e \in ErrorKinds : AttemptFailsTerminal(e)

(***************************************************************************)
(* The text a provider returns and the parse step                          *)
(***************************************************************************)
\* fragments of provider output: a complete JSON document, or text that is
\* not JSON
Fragments == {"{}", "x"}

RECURSIVE SeqsUpTo(_, _)
SeqsUpTo(S, n) ==
    IF n = 0 THEN {<<>>}
    ELSE LET R == SeqsUpTo(S, n - 1)
         IN R \cup {Append(q, x) : q \in R, x \in S}

\* the texts a provider can answer with
Texts == SeqsUpTo(Fragments, MaxFragments)

\* json.loads(response) succeeds: over these fragments only the text made of
\* exactly one JSON document is valid ("" , "x..." and "{}{}" are not)
Parseable(text) == text = <<"{}">>

\* parse_response(response): the parsed, defaulted result, or ValueError
ParseResponse(text) ==
    IF Parseable(text)
    THEN [ok |-> TRUE, value |-> [py |-> "dict", v |-> [parsed_from |-> text]]]
    ELSE [ok |-> FALSE, value |-> "ValueError"]

(***************************************************************************)
(* SessionManager                                                          *)
(***************************************************************************)
\* settings.session_expire_hours
session_expire_hours == 24
\* self.expire_seconds
expire_seconds == session_expire_hours * 3600

METADATA_SUFFIX == "metadata"
\* None, as returned for a key that does not exist
Absent == [absent |-> TRUE]

\* session ids a client makes up itself
ClientIds == {"c1"}
\* str(uuid.uuid4()): the n-th generated id
UuidNames == <<"u1", "u2", "u3", "u4", "u5", "u6", "u7", "u8", "u9", "u10",
               "u11", "u12">>
Uuid(n) == UuidNames[n]

\* _make_key(session_id, step)
MakeKey(session_id, step) == <<"session", session_id, step>>

\* Python values handed to the store: a dict, a list or a tuple with its
\* content
PyDict(r) == [py |-> "dict", v |-> r]
PyList(q) == [py |-> "list", v |-> q]
PyTuple(q) == [py |-> "tuple", v |-> q]

\* json.dumps(data): a dict becomes a JSON object, a list and a tuple both
\* become a JSON array
Dumps(p) == [json |-> IF p.py = "dict" THEN "object" ELSE "array", v |-> p.v]

\* json.loads(json_data): an object becomes a dict, an array a list
Loads(j) == [py |-> IF j.json = "object" THEN "dict" ELSE "list", v |-> j.v]

\* variant: an existing key keeps the time it has left
Setex_keepTtl(st, key, seconds, json_data) ==
    [k \in DOMAIN st \cup {key} |->
        IF k = key
        THEN [data |-> json_data,
              ttl |-> IF key \in DOMAIN st THEN st[key].ttl ELSE seconds]
        ELSE st[k]]

\* redis.setex(key, expire_seconds, json_data)
Setex(st, key, seconds, json_data) ==
    [k \in DOMAIN st \cup {key} |->
        IF k = key THEN [data |-> json_data, ttl |-> seconds] ELSE st[k]]

\* redis.get(key)
RedisGet(st, key) == IF key \in DOMAIN st THEN st[key].data ELSE Absent

\* SessionManager.get_metadata
GetMetadata(st, session_id) ==
    LET j == RedisGet(st, MakeKey(session_id, METADATA_SUFFIX))
    IN IF j = Absent THEN Absent ELSE Loads(j)

\* SessionManager.save_metadata
SaveMetadata(st, session_id, metadata) ==
    Setex(st, MakeKey(session_id, METADATA_SUFFIX), expire_seconds,
          Dumps(metadata))

InSeq(x, q) == \E i \in 1..Len(q) : q[i] = x

\* the metadata update of save_step_result: a missing metadata record is
\* left missing
UpdatedMetadata(st, session_id, step) ==
    LET metadata == GetMetadata(st, session_id)
    IN IF metadata # Absent
       THEN SaveMetadata(st, session_id,
               [metadata EXCEPT
                  !.v.current_step = step,
                  !.v.steps_completed =
                      IF InSeq(step, @) THEN @ ELSE Append(@, step)])
       ELSE st

\* SessionManager.save_step_result
SaveStepResult(st, session_id, step, data) ==
    UpdatedMetadata(Setex(st, MakeKey(session_id, step), expire_seconds,
                          Dumps(data)),
                    session_id, step)

\* variant: the stored text is returned undecoded
GetStepResult_raw(st, session_id, step) ==
    RedisGet(st, MakeKey(session_id, step))

\* SessionManager.get_step_result (the value it returns)
GetStepResult(st, session_id, step) ==
    LET j == RedisGet(st, MakeKey(session_id, step))
    IN IF j = Absent THEN Absent ELSE Loads(j)

\* SessionManager.create_session(user_id): a fresh id is generated and the
\* initial metadata saved under it; the argument is only recorded as user_id
CreateSessionId(n) == Uuid(n + 1)
CreateSession(st, n, user_id) ==
    SaveMetadata(st, CreateSessionId(n),
        PyDict([session_id |-> CreateSessionId(n), user_id |-> user_id,
                current_step |-> "None", steps_completed |-> <<>>]))

InitStore ==
    /\ store = <<>>
    /\ uuid_count = 0

(***************************************************************************)
(* Blocking stage endpoints (api/generate.py)                              *)
(***************************************************************************)
\* BaseAgent.__init__ default
DefaultMaxRetries == 3
\* settings.default_model_name
DefaultModel == "gpt-4"

\* the stages of the blocking model: the first stage and a later stage
ApiStages == {"requirement", "scenario"}
StepOf(stage) ==
    CASE stage = "requirement" -> "requirement_analysis"
      [] stage = "scenario"    -> "scenarios"
      [] stage = "case"        -> "cases"
      [] stage = "optimize"    -> "conversation"
      [] OTHER                 -> "unknown"

NoSession == "None"
NoResponse == [status |-> "none"]

ApiIdle == [pc |-> "idle", n |-> 0, stage |-> "none", sid_given |-> FALSE,
            session_id |-> NoSession, value |-> "None",
            response |-> NoResponse, trace |-> <<>>, known_ids |-> {}]

\* factory.create_*_agent_async(): a new agent with the constructor defaults
NewAgent ==
    /\ max_retries' = DefaultMaxRetries
    /\ fallback_model' = NoModel
    /\ model_name' = DefaultModel
    /\ configured_model' = DefaultModel
    /\ frames' = <<>>
    /\ rpc' = "idle"
    /\ stream' = FALSE
    /\ calls' = <<>>
    /\ backoff' = 0
    /\ result' = NoResult
    /\ invocations' = 0
    /\ switches' = 0

InitAgentDefaults ==
    /\ max_retries = DefaultMaxRetries
    /\ fallback_model = NoModel
    /\ model_name = DefaultModel
    /\ configured_model = DefaultModel
    /\ frames = <<>>
    /\ rpc = "idle"
    /\ stream = FALSE
    /\ calls = <<>>
    /\ backoff = 0
    /\ result = NoResult
    /\ invocations = 0
    /\ switches = 0

\* HTTPException(status_code, detail={error_code, ...})
HttpError(status_code, error_code, sid) ==
    [status |-> "error", status_code |-> status_code,
     error_code |-> error_code, session_id |-> sid]

\* session ids the client can send: its own, or one a response returned
SendableIds == ClientIds \cup api.known_ids

\* SessionManager.create_session() called directly (as the verification
\* scripts do); the caller learns the id it returns
ApiCreateSession ==
    /\ api.pc \in {"idle", "responded"}
    /\ api.n < MaxRequests
    /\ store' = CreateSession(store, uuid_count, "None")
    /\ uuid_count' = uuid_count + 1
    /\ api' = [api EXCEPT !.n = @ + 1,
                          !.known_ids = @ \cup {CreateSessionId(uuid_count)}]
    /\ UNCHANGED retryVars

\* analyze_requirement without session_id: the handler generates an id and
\* calls create_session with it, then builds the agent
ApiDispatchRequirementNew ==
    /\ api.pc \in {"idle", "responded"}
    /\ api.n < MaxRequests
    /\ store' = CreateSession(store, uuid_count + 1, Uuid(uuid_count + 1))
    /\ uuid_count' = uuid_count + 2
    /\ NewAgent
    /\ api' = [api EXCEPT !.pc = "call", !.n = @ + 1, !.stage = "requirement",
                          !.sid_given = FALSE,
                          !.session_id = Uuid(uuid_count + 1),
                          !.value = "None", !.response = NoResponse,
                          !.trace = <<>>]

\* analyze_requirement with a session_id: nothing is checked or created
ApiDispatchRequirement(sid) ==
    /\ api.pc \in {"idle", "responded"}
    /\ api.n < MaxRequests
    /\ NewAgent
    /\ api' = [api EXCEPT !.pc = "call", !.n = @ + 1, !.stage = "requirement",
                          !.sid_given = TRUE, !.session_id = sid,
                          !.value = "None", !.response = NoResponse,
                          !.trace = <<>>]
    /\ UNCHANGED storeVars

\* generate_scenarios (and the other later stages): "Verify session exists"
ApiDispatchLater(stage, sid) ==
    /\ api.pc \in {"idle", "responded"}
    /\ api.n < MaxRequests
    /\ stage # "requirement"
    /\ IF GetMetadata(store, sid) = Absent
       THEN /\ api' = [api EXCEPT !.pc = "responded", !.n = @ + 1,
                          !.stage = stage, !.sid_given = TRUE,
                          !.session_id = sid, !.value = "None",
                          !.trace = <<"respond">>,
                          !.response = HttpError(400, "SESSION_EXPIRED", sid)]
            /\ UNCHANGED retryVars
       ELSE /\ api' = [api EXCEPT !.pc = "call", !.n = @ + 1,
                          !.stage = stage, !.sid_given = TRUE,
                          !.session_id = sid, !.value = "None",
                          !.response = NoResponse, !.trace = <<>>]
            /\ NewAgent
    /\ UNCHANGED storeVars

\* agent.analyze / agent.generate: build_prompt, then _call_llm_with_retry
ApiBuildAndCall ==
    /\ api.pc = "call"
    /\ CallLLMWithRetry(FALSE)
    /\ api' = [api EXCEPT !.pc = "awaiting", !.trace = Append(@, "build")]
    /\ UNCHANGED storeVars

\* one step of the executor inside the request
ApiAttemptFailsRetry ==
    /\ api.pc = "awaiting"
    /\ \E e \in ErrorKinds : AttemptFailsRetry(e)
    /\ api' = [api EXCEPT !.trace = Append(@, "attempt")]
    /\ UNCHANGED storeVars

ApiBackoff ==
    /\ api.pc = "awaiting"
    /\ Backoff
    /\ api' = [api EXCEPT !.trace = Append(@, "backoff")]
    /\ UNCHANGED storeVars

ApiAttemptSucceeds ==
    /\ api.pc = "awaiting"
    /\ AttemptSucceeds
    /\ api' = [api EXCEPT !.pc = "parse", !.trace = Append(@, "attempt")]
    /\ UNCHANGED storeVars

\* the executor raised: the endpoint answers 500 LLM_API_ERROR
ApiAttemptFailsTerminal ==
    /\ api.pc = "awaiting"
    /\ \E e \in ErrorKinds : AttemptFailsTerminal(e)
    /\ api' = [api EXCEPT !.pc = "responded",
                          !.trace = Append(Append(@, "attempt"), "respond"),
                          !.response = HttpError(500, "LLM_API_ERROR",
                                                 api.session_id)]
    /\ UNCHANGED storeVars

\* variant: a rejected text sends the request back to the provider call
ApiParse_retry(text) ==
    /\ api.pc = "parse"
    /\ LET parsed == ParseResponse(text)
       IN IF parsed.ok
          THEN api' = [api EXCEPT !.pc = "save", !.value = parsed.value,
                                  !.trace = Append(@, "parse")]
          ELSE api' = [api EXCEPT !.pc = "call",
                                  !.trace = Append(@, "parse")]
    /\ UNCHANGED retryVars
    /\ UNCHANGED storeVars

\* parse_response on the text the provider returned; a ValueError is caught
\* by the endpoint like a provider failure
ApiParse(text) ==
    /\ api.pc = "parse"
    /\ LET parsed == ParseResponse(text)
       IN IF parsed.ok
          THEN api' = [api EXCEPT !.pc = "save", !.value = parsed.value,
                                  !.trace = Append(@, "parse")]
          ELSE api' = [api EXCEPT !.pc = "responded",
                          !.trace = Append(Append(@, "parse"), "respond"),
                          !.response = HttpError(500, "LLM_API_ERROR",
                                                 api.session_id)]
    /\ UNCHANGED retryVars
    /\ UNCHANGED storeVars

\* session_manager.save_step_result(session_id, step, result)
ApiSave ==
    /\ api.pc = "save"
    /\ store' = SaveStepResult(store, api.session_id, StepOf(api.stage),
                               api.value)
    /\ api' = [api EXCEPT !.pc = "respond", !.trace = Append(@, "write")]
    /\ UNCHANGED uuid_count
    /\ UNCHANGED retryVars

\* return ...Response(session_id=session_id, ...)
ApiRespond ==
    /\ api.pc = "respond"
    /\ api' = [api EXCEPT !.pc = "responded",
                          !.trace = Append(@, "respond"),
                          !.known_ids = @ \cup {api.session_id},
                          !.response = [status |-> "ok", status_code |-> 200,
                                        error_code |-> "None",
                                        session_id |-> api.session_id]]
    /\ UNCHANGED retryVars
    /\ UNCHANGED storeVars

NextApi ==
    \/ ApiCreateSession
    \/ ApiDispatchRequirementNew
    \/ \E sid \in SendableIds : ApiDispatchRequirement(sid)
    \/ \E sid \in SendableIds : ApiDispatchLater("scenario", sid)
    \/ ApiBuildAndCall
    \/ ApiAttemptFailsRetry
    \/ ApiBackoff
    \/ ApiAttemptSucceeds
    \/ ApiAttemptFailsTerminal
    \/ \E text \in Texts : ApiParse(text)
    \/ ApiSave
    \/ ApiRespond

(***************************************************************************)
(* Streaming endpoint and handlers (api/websocket.py)                      *)
(***************************************************************************)
\* the channels (WebSocket connections) of the model
Chans == {1, 2}
\* the actions of the streaming model: a single-call stage and the stage
\* that calls the provider once per scenario
WsActions == {"requirement", "case"}
\* session ids sent in dispatch messages
WsSessionIds == {"c1", "c2"}

WsNew == [pc |-> "new", client_open |-> FALSE, action |-> "none",
          session_id |-> NoSession, scenarios |-> 0, scenario |-> 0,
          attempts |-> 0, requests |-> 0, streaming |-> FALSE,
          response_text |-> <<>>, test_cases |-> 0,
          chunks |-> <<>>, parse_inputs |-> <<>>,
          failure |-> NoError, outcome |-> "none", ignored |-> 0]

InitWs ==
    /\ ws = [c \in Chans |-> WsNew]
    /\ received = [c \in Chans |-> [o \in Chans |-> <<>>]]
    /\ active_connections = <<>>

\* the messages built by send_progress, send_chunk, send_done, send_error;
\* origin names the channel whose handler built the message
ProgressMsg(c, progress) ==
    [type |-> "progress", content |-> "", progress |-> progress, origin |-> c]
ChunkMsg(c, content) ==
    [type |-> "chunk", content |-> content, progress |-> 0, origin |-> c]
DoneMsg(c) ==
    [type |-> "done", content |-> "", progress |-> 0, origin |-> c]
ErrorMsg(c) ==
    [type |-> "error", content |-> "", progress |-> 0, origin |-> c]
\* the error message the endpoint sends itself when the handshake fails
HandshakeErrorMsg(c) ==
    [type |-> "error", content |-> "Missing action or session_id",
     progress |-> 0, origin |-> c]

\* values of message.get("action") / message.get("session_id") for which
\* "not value" holds: None (key absent) and the empty string
Missing == {"None", ""}

\* variant: only the action is checked
HandshakeRejects_actionOnly(action, session_id) == action \in Missing

\* if not action or not session_id
HandshakeRejects(action, session_id) ==
    action \in Missing \/ session_id \in Missing

\* ConnectionManager.disconnect(session_id)
Disconnect(conns, session_id) ==
    [k \in DOMAIN conns \ {session_id} |-> conns[k]]

\* ConnectionManager.send_message(session_id, message): the socket registered
\* under the session id gets the message; a failing send_json (the client is
\* gone) is caught and the registration removed
SendTarget(conns, session_id) == conns[session_id]

SendMessage(session_id, message) ==
    IF session_id \notin DOMAIN active_connections
    THEN UNCHANGED <<received, active_connections>>
    ELSE LET target == SendTarget(active_connections, session_id)
         IN IF ws[target].client_open
            THEN /\ received' = [received EXCEPT
                                     ![target][message.origin] =
                                         Append(@, message)]
                 /\ UNCHANGED active_connections
            ELSE /\ active_connections' = Disconnect(active_connections,
                                                     session_id)
                 /\ UNCHANGED received

\* the first progress percentage after "start"
SecondProgress(action) == IF action = "requirement" THEN 40 ELSE 30

\* a client opens a channel: websocket.accept().  The channels are
\* interchangeable, so they are opened in the order of their numbers and the
\* first one uses the first session id.
WsConnect(c) ==
    /\ ws[c].pc = "new"
    /\ \A b \in Chans : b < c => ws[b].pc # "new"
    /\ ws' = [ws EXCEPT ![c].pc = "accepted", ![c].client_open = TRUE]
    /\ UNCHANGED <<received, active_connections, store>>

\* the dispatch message {action, session_id, data} arrives: the socket is
\* registered under the session id
WsDispatch(c, action, sid, n) ==
    /\ ws[c].pc = "accepted"
    /\ ws[c].client_open
    /\ ~HandshakeRejects(action, sid)
    /\ (action = "case" \/ n = 1)
    /\ (c = 1 => sid # "c2")
    /\ ws' = [ws EXCEPT ![c].pc = "start", ![c].action = action,
                        ![c].session_id = sid, ![c].scenarios = n]
    /\ active_connections' =
          [k \in DOMAIN active_connections \cup {sid} |->
              IF k = sid THEN c ELSE active_connections[k]]
    /\ UNCHANGED <<received, store>>

\* the dispatch message lacks action or session_id: the endpoint sends the
\* error itself, closes the socket and returns; finally: disconnect(session_id)
\* when a session id was given
WsBadHandshake(c, action, sid) ==
    /\ ws[c].pc = "accepted"
    /\ ws[c].client_open
    /\ HandshakeRejects(action, sid)
    /\ received' = [received EXCEPT ![c][c] = Append(@, HandshakeErrorMsg(c))]
    /\ active_connections' =
          IF sid \in Missing THEN active_connections
          ELSE Disconnect(active_connections, sid)
    /\ ws' = [ws EXCEPT ![c].pc = "closed", ![c].client_open = FALSE,
                        ![c].action = action, ![c].session_id = sid,
                        ![c].outcome = "rejected"]
    /\ UNCHANGED store

\* send_progress(session_id, 10, ...)
WsStart(c) ==
    /\ ws[c].pc = "start"
    /\ SendMessage(ws[c].session_id, ProgressMsg(c, 10))
    /\ ws' = [ws EXCEPT ![c].pc = "progress2"]
    /\ UNCHANGED store

\* send_progress(session_id, 40 | 30, ...), then the agent is created
WsProgress2(c) ==
    /\ ws[c].pc = "progress2"
    /\ SendMessage(ws[c].session_id, ProgressMsg(c, SecondProgress(ws[c].action)))
    /\ ws' = [ws EXCEPT ![c].pc = "call", ![c].scenario = 1]
    /\ UNCHANGED store

\* build_prompt, then stream = await _call_llm_with_retry(stream=True): the
\* first attempt returns the generator of _call_openai, which has not yet
\* sent the request
WsCall(c) ==
    /\ ws[c].pc = "call"
    /\ ws' = [ws EXCEPT ![c].pc = "stream", ![c].attempts = @ + 1,
                        ![c].streaming = FALSE, ![c].response_text = <<>>]
    /\ UNCHANGED <<received, active_connections, store>>

\* what the handler does when the per-call part of its agent method is over
\* without a result: CaseAgent.generate prints and continues with the next
\* scenario; every other agent method lets the exception reach the handler,
\* which sends the error event
AfterCallFailed(c, w) ==
    IF w.action = "case"
    THEN /\ UNCHANGED <<received, active_connections>>
         /\ ws' = [ws EXCEPT ![c] =
               IF w.scenario < w.scenarios
               THEN [w EXCEPT !.pc = "call", !.scenario = @ + 1]
               ELSE [w EXCEPT !.pc = "saving"]]
    ELSE /\ SendMessage(w.session_id, ErrorMsg(c))
         /\ ws' = [ws EXCEPT ![c] = [w EXCEPT !.pc = "idle",
                                               !.outcome = "error"]]

\* async for chunk in stream: the generator sends the request on its first
\* step and yields a fragment; response_text += chunk; stream_callback(chunk)
WsFragment(c, f) ==
    /\ ws[c].pc = "stream"
    /\ Len(ws[c].chunks) < MaxFragments
    /\ SendMessage(ws[c].session_id, ChunkMsg(c, f))
    /\ ws' = [ws EXCEPT ![c].response_text = Append(@, f),
                        ![c].chunks = Append(@, f),
                        ![c].streaming = TRUE,
                        ![c].requests = IF ws[c].streaming THEN @ ELSE @ + 1]
    /\ UNCHANGED store

\* the provider request or a later step of the generator raises
WsStreamFails(c, e) ==
    /\ ws[c].pc = "stream"
    /\ AfterCallFailed(c, [ws[c] EXCEPT
                              !.failure = e,
                              !.requests = IF ws[c].streaming THEN @ ELSE @ + 1])
    /\ UNCHANGED store

\* the generator is exhausted: parse_response(response_text)
WsStreamEnds(c) ==
    /\ ws[c].pc = "stream"
    /\ LET w == [ws[c] EXCEPT
                    !.parse_inputs = Append(@, ws[c].response_text),
                    !.requests = IF ws[c].streaming THEN @ ELSE @ + 1]
           parsed == ParseResponse(ws[c].response_text)
       IN IF parsed.ok
          THEN /\ UNCHANGED <<received, active_connections>>
               /\ ws' = [ws EXCEPT ![c] =
                     IF w.action = "case" /\ w.scenario < w.scenarios
                     THEN [w EXCEPT !.pc = "call", !.scenario = @ + 1,
                                    !.test_cases = @ + 1]
                     ELSE [w EXCEPT !.pc = "saving", !.test_cases = @ + 1]]
          ELSE AfterCallFailed(c, w)
    /\ UNCHANGED store

\* send_progress(session_id, 90, ...)
WsSaving(c) ==
    /\ ws[c].pc = "saving"
    /\ SendMessage(ws[c].session_id, ProgressMsg(c, 90))
    /\ ws' = [ws EXCEPT ![c].pc = "save"]
    /\ UNCHANGED store

\* session_manager.save_step_result(session_id, step, result)
WsSave(c) ==
    /\ ws[c].pc = "save"
    /\ store' = SaveStepResult(store, ws[c].session_id, StepOf(ws[c].action),
                               PyDict([cases |-> ws[c].test_cases]))
    /\ ws' = [ws EXCEPT ![c].pc = "complete"]
    /\ UNCHANGED <<received, active_connections>>

\* save_step_result raises SessionError (a redis command failed): the
\* handler's except block sends the error event.  The step key is untouched
\* when setex failed and written when save_metadata failed, which runs only
\* for a session that has metadata.
WsSaveFails(c) ==
    /\ ws[c].pc = "save"
    /\ store' \in {store} \cup
          IF GetMetadata(store, ws[c].session_id) = Absent THEN {}
          ELSE {Setex(store,
                      MakeKey(ws[c].session_id, StepOf(ws[c].action)),
                      expire_seconds,
                      Dumps(PyDict([cases |-> ws[c].test_cases])))}
    /\ SendMessage(ws[c].session_id, ErrorMsg(c))
    /\ ws' = [ws EXCEPT ![c].pc = "idle", ![c].outcome = "error",
                        ![c].failure = "SessionError"]

\* send_progress(session_id, 100, ...)
WsComplete(c) ==
    /\ ws[c].pc = "complete"
    /\ SendMessage(ws[c].session_id, ProgressMsg(c, 100))
    /\ ws' = [ws EXCEPT ![c].pc = "done"]
    /\ UNCHANGED store

\* send_done(session_id, ...); the endpoint then waits in its receive loop
WsDone(c) ==
    /\ ws[c].pc = "done"
    /\ SendMessage(ws[c].session_id, DoneMsg(c))
    /\ ws' = [ws EXCEPT ![c].pc = "idle", ![c].outcome = "done"]
    /\ UNCHANGED store

\* the client closes its side of the channel
WsClientClose(c) ==
    /\ ws[c].pc \notin {"new", "accepted", "closed"}
    /\ ws[c].client_open
    /\ ws' = [ws EXCEPT ![c].client_open = FALSE]
    /\ UNCHANGED <<received, active_connections, store>>

\* variant: a message received in the idle loop is dispatched like the first
WsClientSends_dispatch(c) ==
    /\ ws[c].pc = "idle"
    /\ ws[c].client_open
    /\ ws[c].ignored < MaxExtra
    /\ ws' = [ws EXCEPT ![c].pc = "start", ![c].ignored = @ + 1]
    /\ UNCHANGED <<received, active_connections, store>>

\* the client sends a further message: receive_text returns in the idle
\* loop and its value is dropped
WsClientSends(c) ==
    /\ ws[c].pc = "idle"
    /\ ws[c].client_open
    /\ ws[c].ignored < MaxExtra
    /\ ws' = [ws EXCEPT ![c].ignored = @ + 1]
    /\ UNCHANGED <<received, active_connections, store>>

\* receive_text raises WebSocketDisconnect in the receive loop; finally:
\* manager.disconnect(session_id)
WsServerSeesClose(c) ==
    /\ ws[c].pc = "idle"
    /\ ~ws[c].client_open
    /\ active_connections' = Disconnect(active_connections, ws[c].session_id)
    /\ ws' = [ws EXCEPT ![c].pc = "closed"]
    /\ UNCHANGED <<received, store>>

\* one channel, every stage of the model, every kind of fragment and of
\* provider failure
NextStream ==
    \/ WsConnect(1)
    \/ \E action \in WsActions \cup Missing, sid \in {"c1"} \cup Missing,
          n \in 1..MaxScenarios :
           WsDispatch(1, action, sid, n)
    \/ \E action \in WsActions \cup Missing, sid \in {"c1"} \cup Missing :
           WsBadHandshake(1, action, sid)
    \/ WsStart(1)
    \/ WsProgress2(1)
    \/ WsCall(1)
    \/ \E f \in Fragments : WsFragment(1, f)
    \/ \E e \in ErrorKinds : WsStreamFails(1, e)
    \/ WsStreamEnds(1)
    \/ WsSaving(1)
    \/ WsSave(1)
    \/ WsSaveFails(1)
    \/ WsComplete(1)
    \/ WsDone(1)
    \/ WsClientSends(1)
    \/ WsClientClose(1)
    \/ WsServerSeesClose(1)

\* two channels at the same time; the single-call stage, one kind of fragment
\* and of failure
NextWs ==
    \/ \E c \in Chans : WsConnect(c)
    \/ \E c \in Chans, sid \in WsSessionIds :
           WsDispatch(c, "requirement", sid, 1)
    \/ \E c \in Chans, action \in {"requirement", "None"},
          sid \in WsSessionIds \cup {"None"} :
           WsBadHandshake(c, action, sid)
    \/ \E c \in Chans : WsStart(c)
    \/ \E c \in Chans : WsProgress2(c)
    \/ \E c \in Chans : WsCall(c)
    \/ \E c \in Chans : WsFragment(c, "{}")
    \/ \E c \in Chans : WsStreamFails(c, "transient")
    \/ \E c \in Chans : WsStreamEnds(c)
    \/ \E c \in Chans : WsSaving(c)
    \/ \E c \in Chans : WsSave(c)
    \/ \E c \in Chans : WsSaveFails(c)
    \/ \E c \in Chans : WsComplete(c)
    \/ \E c \in Chans : WsDone(c)
    \/ \E c \in Chans : WsClientSends(c)
    \/ \E c \in Chans : WsClientClose(c)
    \/ \E c \in Chans : WsServerSeesClose(c)

(***************************************************************************)
(* SessionManager under the passage of time; optimize invocations          *)
(***************************************************************************)
\* seconds of one clock step
TickSeconds == expire_seconds \div TicksPerTtl

\* Redis after the given seconds: every key's remaining time has gone down,
\* a key whose time is used up is gone
Elapse(st, seconds) ==
    [k \in {x \in DOMAIN st : st[x].ttl > seconds} |->
        [st[k] EXCEPT !.ttl = @ - seconds]]

\* keys matching _make_key(session_id, "*")
KeysOf(st, session_id) == {k \in DOMAIN st : k[2] = session_id}

\* the store after get_step_result: a step that is present refreshes the
\* metadata (last_accessed) when the metadata exists; an absent step returns
\* before that
AfterGetStepResult(st, session_id, step) ==
    IF RedisGet(st, MakeKey(session_id, step)) = Absent THEN st
    ELSE LET metadata == GetMetadata(st, session_id)
         IN IF metadata # Absent THEN SaveMetadata(st, session_id, metadata)
            ELSE st

\* the store after delete_session: redis.delete of every key of the session
DeleteSession(st, session_id) ==
    [k \in DOMAIN st \ KeysOf(st, session_id) |-> st[k]]

\* the store after extend_session: redis.expire(key, expire_seconds) for
\* every key of the session
ExtendSession(st, session_id) ==
    [k \in DOMAIN st |->
        IF k \in KeysOf(st, session_id)
        THEN [st[k] EXCEPT !.ttl = expire_seconds] ELSE st[k]]

\* step names and payloads of the direct callers
StoreSteps == {"scenarios", "cases"}
Payloads == {PyDict([test |-> "data"]), PyList(<<1, 2>>), PyTuple(<<1, 2>>)}
\* ids returned by create_session so far
SmIds == {Uuid(i) : i \in 1..uuid_count}
\* the optimize invocations that can run at the same time
Procs == {1, 2}

PyStr(x) == [py |-> "str", v |-> x]
PyBool(b) == [py |-> "bool", v |-> b]
PyNone == [py |-> "None", v |-> "None"]

OptIdle == [pc |-> "idle", session_id |-> NoSession,
            conversation |-> PyList(<<>>), turn |-> 0]

InitSm ==
    /\ sm = [op |-> "none", session_id |-> NoSession, step |-> "None",
             ret |-> PyNone, saved |-> <<>>, turns |-> 0]
    /\ opt = [p \in Procs |-> OptIdle]

\* the payloads passed to save_step_result whose key has not been written,
\* deleted or expired since: kept for the keys that are still in the store
\* with the same time left or less
LiveSaved(saved, st) == [k \in DOMAIN saved \cap DOMAIN st |-> saved[k]]
Record(saved, key, payload) ==
    [k \in DOMAIN saved \cup {key} |-> IF k = key THEN payload ELSE saved[k]]

\* session_id = await session_manager.create_session()
SmCreateSession ==
    /\ uuid_count < MaxSessions
    /\ store' = CreateSession(store, uuid_count, "None")
    /\ uuid_count' = uuid_count + 1
    /\ sm' = [sm EXCEPT !.op = "create",
                        !.session_id = CreateSessionId(uuid_count),
                        !.step = "None",
                        !.ret = PyStr(CreateSessionId(uuid_count))]
    /\ UNCHANGED opt

\* await session_manager.save_step_result(session_id, step, payload)
SmSaveStep(session_id, step, payload) ==
    /\ session_id \in SmIds
    /\ store' = SaveStepResult(store, session_id, step, payload)
    /\ sm' = [sm EXCEPT !.op = "save", !.session_id = session_id,
                        !.step = step, !.ret = PyNone,
                        !.saved = Record(@, MakeKey(session_id, step), payload)]
    /\ UNCHANGED <<uuid_count, opt>>

\* result = await session_manager.get_step_result(session_id, step)
SmGetStep(session_id, step) ==
    /\ session_id \in SmIds
    /\ store' = AfterGetStepResult(store, session_id, step)
    /\ sm' = [sm EXCEPT !.op = "get", !.session_id = session_id,
                        !.step = step,
                        !.ret = GetStepResult(store, session_id, step)]
    /\ UNCHANGED <<uuid_count, opt>>

\* await session_manager.delete_session(session_id)
SmDelete(session_id) ==
    /\ session_id \in SmIds
    /\ store' = DeleteSession(store, session_id)
    /\ sm' = [sm EXCEPT !.op = "delete", !.session_id = session_id,
                        !.step = "None",
                        !.ret = PyBool(KeysOf(store, session_id) # {}),
                        !.saved = LiveSaved(@, store')]
    /\ UNCHANGED <<uuid_count, opt>>

\* await session_manager.extend_session(session_id)
SmExtend(session_id) ==
    /\ session_id \in SmIds
    /\ store' = ExtendSession(store, session_id)
    /\ sm' = [sm EXCEPT !.op = "extend", !.session_id = session_id,
                        !.step = "None",
                        !.ret = PyBool(KeysOf(store, session_id) # {})]
    /\ UNCHANGED <<uuid_count, opt>>

\* time passes
Tick ==
    /\ DOMAIN store # {}
    /\ store' = Elapse(store, TickSeconds)
    /\ sm' = [sm EXCEPT !.op = "tick", !.session_id = NoSession,
                        !.step = "None", !.ret = PyNone,
                        !.saved = LiveSaved(@, store')]
    /\ UNCHANGED <<uuid_count, opt>>

\* the entry an optimize invocation appends
Entry(turn) == [type |-> "optimize", turn |-> turn]

\* the conversation step of a session as a sequence (empty when absent)
ConversationLog(st, session_id) ==
    LET c == GetStepResult(st, session_id, "conversation")
    IN IF c = Absent THEN <<>> ELSE c.v

\* optimize_cases: "Verify session exists" (400 SESSION_EXPIRED otherwise),
\* then agent.optimize returns its result
OptimizeStart(p, session_id) ==
    /\ opt[p].pc = "idle"
    /\ session_id \in SmIds
    /\ sm.turns < MaxTurns
    /\ opt' = [opt EXCEPT ![p] =
          IF GetMetadata(store, session_id) = Absent
          THEN [OptIdle EXCEPT !.session_id = session_id]
          ELSE [pc |-> "read", session_id |-> session_id,
                conversation |-> PyList(<<>>), turn |-> sm.turns + 1]]
    /\ sm' = [sm EXCEPT !.op = "optimize_start", !.session_id = session_id,
                        !.step = "None", !.ret = PyNone, !.turns = @ + 1]
    /\ UNCHANGED <<store, uuid_count>>

\* conversation = await get_step_result(session_id, "conversation") or []
OptimizeRead(p) ==
    /\ opt[p].pc = "read"
    /\ LET got == GetStepResult(store, opt[p].session_id, "conversation")
       IN opt' = [opt EXCEPT ![p].pc = "save",
                             ![p].conversation =
                                 IF got = Absent \/ got.v = <<>>
                                 THEN PyList(<<>>) ELSE got]
    /\ store' = AfterGetStepResult(store, opt[p].session_id, "conversation")
    /\ sm' = [sm EXCEPT !.op = "optimize_read",
                        !.session_id = opt[p].session_id,
                        !.step = "conversation", !.ret = PyNone]
    /\ UNCHANGED uuid_count

\* conversation.append({...}); await save_step_result(session_id,
\* "conversation", conversation); return OptimizeResponse(...)
OptimizeSave(p) ==
    /\ opt[p].pc = "save"
    /\ LET conversation ==
               PyList(Append(opt[p].conversation.v, Entry(opt[p].turn)))
       IN /\ store' = SaveStepResult(store, opt[p].session_id,
                                     "conversation", conversation)
          /\ sm' = [sm EXCEPT !.op = "optimize_save",
                              !.session_id = opt[p].session_id,
                              !.step = "conversation", !.ret = PyNone,
                              !.saved = Record(@, MakeKey(opt[p].session_id,
                                                          "conversation"),
                                               conversation)]
    /\ opt' = [opt EXCEPT ![p] = [OptIdle EXCEPT !.turn = opt[p].turn]]
    /\ UNCHANGED uuid_count

NextStore ==
    \/ SmCreateSession
    \/ \E session_id \in SmIds, step \in StoreSteps, payload \in Payloads :
           SmSaveStep(session_id, step, payload)
    \/ \E session_id \in SmIds, step \in StoreSteps : SmGetStep(session_id, step)
    \/ \E session_id \in SmIds : SmDelete(session_id)
    \/ \E session_id \in SmIds : SmExtend(session_id)
    \/ Tick

\* optimize invocations on the sessions created, while time passes
NextConv ==
    \/ SmCreateSession
    \/ \E p \in Procs, session_id \in SmIds : OptimizeStart(p, session_id)
    \/ \E p \in Procs : OptimizeRead(p)
    \/ \E p \in Procs : OptimizeSave(p)
    \/ \E session_id \in SmIds : SmGetStep(session_id, "conversation")
    \/ Tick


(***************************************************************************)
(* SessionManager calls running at the same time.  Every redis command a  *)
(* call awaits is one step; the steps of different calls interleave.       *)
(***************************************************************************)
\* the payloads of the concurrent writers
RacePayloads == {PyDict([test |-> "data"]), PyDict([test |-> "other"])}

\* a coroutine that has made no call yet
TaskIdle == [pc |-> "idle", op |-> "none", session_id |-> NoSession,
             step |-> "None", data |-> PyNone, metadata |-> Absent,
             keys |-> {}]

InitRace ==
    /\ task = [p \in Procs |-> TaskIdle]
    /\ hist = [written |-> <<>>, raced |-> {}, completed |-> {},
               deleted |-> {}, calls |-> 0]

\* another coroutine is inside save_step_result for the same key
OtherSaving(p, session_id, step) ==
    \E q \in Procs \ {p} :
        /\ task[q].pc # "idle"
        /\ task[q].op = "save"
        /\ task[q].session_id = session_id
        /\ task[q].step = step

\* the call of coroutine p has returned
Returned(p) == [task[p] EXCEPT !.pc = "idle"]

\* metadata['current_step'] = step; append to steps_completed when new
StepRecorded(metadata, step) ==
    [metadata EXCEPT !.v.current_step = step,
                     !.v.steps_completed =
                         IF InSeq(step, @) THEN @ ELSE Append(@, step)]

\* variant: the key is written only when it does not exist yet
SaveSetex_ifAbsent(p, session_id, step, data) ==
    /\ task[p].pc = "idle"
    /\ hist.calls < MaxCalls
    /\ session_id \in SmIds
    /\ store' = IF MakeKey(session_id, step) \in DOMAIN store THEN store
                ELSE Setex(store, MakeKey(session_id, step), expire_seconds,
                           Dumps(data))
    /\ task' = [task EXCEPT ![p] =
          [TaskIdle EXCEPT !.pc = "get_metadata", !.op = "save",
                           !.session_id = session_id, !.step = step,
                           !.data = data]]
    /\ hist' = [hist EXCEPT
          !.written = Record(@, MakeKey(session_id, step), data),
          !.raced = IF OtherSaving(p, session_id, step)
                    THEN @ \cup {MakeKey(session_id, step)} ELSE @,
          !.calls = @ + 1]
    /\ UNCHANGED <<uuid_count, sm, opt>>

\* save_step_result, lines 101-111: json.dumps(data) and
\* await redis.setex(key, expire_seconds, json_data)
SaveSetex(p, session_id, step, data) ==
    /\ task[p].pc = "idle"
    /\ hist.calls < MaxCalls
    /\ session_id \in SmIds
    /\ store' = Setex(store, MakeKey(session_id, step), expire_seconds,
                      Dumps(data))
    /\ task' = [task EXCEPT ![p] =
          [TaskIdle EXCEPT !.pc = "get_metadata", !.op = "save",
                           !.session_id = session_id, !.step = step,
                           !.data = data]]
    /\ hist' = [hist EXCEPT
          !.written = Record(@, MakeKey(session_id, step), data),
          !.raced = IF OtherSaving(p, session_id, step)
                    THEN @ \cup {MakeKey(session_id, step)} ELSE @,
          !.calls = @ + 1]
    /\ UNCHANGED <<uuid_count, sm, opt>>

\* save_step_result, lines 114-120: metadata = await get_metadata(session_id);
\* a missing metadata ends the call, otherwise the local copy is updated
SaveGetMetadata(p) ==
    /\ task[p].pc = "get_metadata"
    /\ task[p].op = "save"
    /\ LET metadata == GetMetadata(store, task[p].session_id)
       IN IF metadata = Absent
          THEN /\ task' = [task EXCEPT ![p] = Returned(p)]
               /\ hist' = [hist EXCEPT !.completed =
                     @ \cup {MakeKey(task[p].session_id, task[p].step)}]
          ELSE /\ task' = [task EXCEPT
                     ![p].pc = "save_metadata",
                     ![p].metadata = StepRecorded(metadata, task[p].step)]
               /\ UNCHANGED hist
    /\ UNCHANGED <<store, uuid_count, sm, opt>>

\* save_step_result, line 122: await save_metadata(session_id, metadata)
SaveSaveMetadata(p) ==
    /\ task[p].pc = "save_metadata"
    /\ task[p].op = "save"
    /\ store' = SaveMetadata(store, task[p].session_id, task[p].metadata)
    /\ task' = [task EXCEPT ![p] = Returned(p)]
    /\ hist' = [hist EXCEPT !.completed =
          @ \cup {MakeKey(task[p].session_id, task[p].step)}]
    /\ UNCHANGED <<uuid_count, sm, opt>>

\* get_step_result, lines 145-154: json_data = await redis.get(key); None is
\* returned for a missing key
GetRedisGet(p, session_id, step) ==
    /\ task[p].pc = "idle"
    /\ hist.calls < MaxCalls
    /\ session_id \in SmIds
    /\ LET got == GetStepResult(store, session_id, step)
       IN task' = [task EXCEPT ![p] =
             [TaskIdle EXCEPT
                !.pc = IF got = Absent THEN "idle" ELSE "get_metadata",
                !.op = "get", !.session_id = session_id, !.step = step,
                !.data = IF got = Absent THEN PyNone ELSE got]]
    /\ hist' = [hist EXCEPT !.calls = @ + 1]
    /\ UNCHANGED <<store, uuid_count, sm, opt>>

\* get_step_result, lines 157-159: metadata = await get_metadata(session_id);
\* without metadata the data is returned
GetGetMetadata(p) ==
    /\ task[p].pc = "get_metadata"
    /\ task[p].op = "get"
    /\ LET metadata == GetMetadata(store, task[p].session_id)
       IN task' = [task EXCEPT ![p] =
             IF metadata = Absent THEN Returned(p)
             ELSE [task[p] EXCEPT !.pc = "save_metadata",
                                  !.metadata = metadata]]
    /\ UNCHANGED <<store, uuid_count, sm, opt, hist>>

\* get_step_result, lines 160-162: await save_metadata(session_id, metadata)
\* and return data
GetSaveMetadata(p) ==
    /\ task[p].pc = "save_metadata"
    /\ task[p].op = "get"
    /\ store' = SaveMetadata(store, task[p].session_id, task[p].metadata)
    /\ task' = [task EXCEPT ![p] = Returned(p)]
    /\ UNCHANGED <<uuid_count, sm, opt, hist>>

\* delete_session, lines 238-245: the keys of the session are collected;
\* without keys False is returned
DeleteScan(p, session_id) ==
    /\ task[p].pc = "idle"
    /\ hist.calls < MaxCalls
    /\ session_id \in SmIds
    /\ task' = [task EXCEPT ![p] =
          [TaskIdle EXCEPT
             !.pc = IF KeysOf(store, session_id) = {} THEN "idle"
                    ELSE "delete",
             !.op = "delete", !.session_id = session_id,
             !.keys = KeysOf(store, session_id)]]
    /\ hist' = [hist EXCEPT !.calls = @ + 1]
    /\ UNCHANGED <<store, uuid_count, sm, opt>>

\* delete_session, line 248: await redis.delete(*keys)
DeleteKeys(p) ==
    /\ task[p].pc = "delete"
    /\ task[p].op = "delete"
    /\ store' = [k \in DOMAIN store \ task[p].keys |-> store[k]]
    /\ task' = [task EXCEPT ![p] = Returned(p)]
    /\ hist' = [hist EXCEPT !.deleted = @ \cup {task[p].session_id}]
    /\ UNCHANGED <<uuid_count, sm, opt>>

\* a session is created, then calls on it run side by side
NextRace ==
    \/ SmCreateSession /\ UNCHANGED raceVars
    \/ \E p \in Procs, session_id \in SmIds, step \in StoreSteps,
          data \in RacePayloads : SaveSetex(p, session_id, step, data)
    \/ \E p \in Procs : SaveGetMetadata(p)
    \/ \E p \in Procs : SaveSaveMetadata(p)
    \/ \E p \in Procs, session_id \in SmIds, step \in StoreSteps :
           GetRedisGet(p, session_id, step)
    \/ \E p \in Procs : GetGetMetadata(p)
    \/ \E p \in Procs : GetSaveMetadata(p)
    \/ \E p \in Procs, session_id \in SmIds : DeleteScan(p, session_id)
    \/ \E p \in Procs : DeleteKeys(p)

(***************************************************************************)
(* Execution tracking: BaseAgent.generate, generate_streaming and the      *)
(* feedback endpoint (api/feedback.py)                                     *)
(***************************************************************************)
\* _create_execution_record: a fresh execution_id and status "running"
CreateExecutionRecord(n) ==
    [execution_id |-> Uuid(n + 1), status |-> "running",
     output_data |-> PyNone, error_message |-> PyNone]

NoReturn == [kind |-> "none"]
GenIdle ==
    [pc |-> "idle", method |-> "none", stream |-> FALSE,
     execution_record |-> [execution_id |-> "None", status |-> "none",
                           output_data |-> PyNone, error_message |-> PyNone],
     full_response |-> <<>>, events |-> <<>>, ret |-> NoReturn,
     primary |-> NoReturn, transitions |-> <<>>, flushes |-> 0,
     commit_failed |-> FALSE]

NoFeedback == [calls |-> 0, execution_id |-> "None", status_code |-> 0]

InitRec ==
    /\ gen = GenIdle
    /\ db = <<>>
    /\ feedback = NoFeedback

\* a new invocation with its execution record
NewGen(method, s, pc) ==
    [GenIdle EXCEPT !.pc = pc, !.method = method, !.stream = s,
                    !.execution_record = CreateExecutionRecord(uuid_count)]

\* execution_record["status"] = status, with output_data or error_message
Completed(g, output, ret) ==
    [g EXCEPT !.pc = "flush",
              !.execution_record.status = "completed",
              !.execution_record.output_data = output,
              !.primary = ret,
              !.transitions = Append(@, "completed")]
Failed(g, message, ret) ==
    [g EXCEPT !.pc = "flush",
              !.execution_record.status = "failed",
              !.execution_record.error_message = message,
              !.primary = ret,
              !.transitions = Append(@, "failed")]

\* agent.generate(stream=False, ...): the record is created and
\* _call_llm_with_retry entered (lines 473-504)
Generate ==
    /\ gen.pc \in {"idle", "done"}
    /\ CallLLMWithRetry(FALSE)
    /\ gen' = NewGen("generate", FALSE, "calling")
    /\ uuid_count' = uuid_count + 1
    /\ UNCHANGED <<db, feedback>>

\* agent.generate(stream=True, ...): the record is created and the generator
\* stream_and_parse() returned without having run (lines 473-501)
GenerateStream ==
    /\ gen.pc \in {"idle", "done"}
    /\ invocations < MaxInvocations
    /\ gen' = NewGen("generate", TRUE, "generator")
    /\ uuid_count' = uuid_count + 1
    /\ UNCHANGED retryVars
    /\ UNCHANGED <<db, feedback>>

\* the consumer asks stream_and_parse for its first item: line 486
StreamAndParseStarts ==
    /\ gen.pc = "generator"
    /\ CallLLMWithRetry(TRUE)
    /\ gen' = [gen EXCEPT !.pc = "calling"]
    /\ UNCHANGED <<uuid_count, db, feedback>>

\* the consumer asks generate_streaming for its first item: the record is
\* created and _call_llm_with_retry entered (lines 536-547)
GenerateStreaming ==
    /\ gen.pc \in {"idle", "done"}
    /\ CallLLMWithRetry(TRUE)
    /\ gen' = NewGen("generate_streaming", TRUE, "calling")
    /\ uuid_count' = uuid_count + 1
    /\ UNCHANGED <<db, feedback>>

\* a step of _call_llm_with_retry inside the invocation; an agent built with
\* the defaults has no fallback model
GenExecutorStep(kinds) ==
    /\ gen.pc = "calling"
    /\ \/ AttemptSucceeds
       \/ \E e \in kinds : AttemptFailsRetry(e)
       \/ Backoff
       \/ \E e \in kinds : AttemptFailsTerminal(e)
    /\ UNCHANGED <<uuid_count, gen, db, feedback>>

\* generate, lines 504-510: the response is parsed and the record completed;
\* a ValueError of parse_response reaches the except block (lines 515-519)
GenerateReturned(text) ==
    /\ gen.pc = "calling"
    /\ ~gen.stream
    /\ rpc = "returned"
    /\ LET parsed == ParseResponse(text)
       IN gen' = IF parsed.ok
                 THEN Completed(gen, parsed.value,
                                [kind |-> "return", value |-> parsed.value])
                 ELSE Failed(gen, [str |-> "ValueError"],
                             [kind |-> "raise", error |-> "ValueError"])
    /\ UNCHANGED retryVars
    /\ UNCHANGED <<uuid_count, db, feedback>>

\* generate, lines 515-519: _call_llm_with_retry raised
GenerateRaised ==
    /\ gen.pc = "calling"
    /\ ~gen.stream
    /\ rpc = "raised"
    /\ gen' = Failed(gen, [str |-> ExcStr(result.error)],
                     [kind |-> "raise", error |-> result.error.type])
    /\ UNCHANGED retryVars
    /\ UNCHANGED <<uuid_count, db, feedback>>

\* the provider stream yields a fragment: it is added to full_response and
\* passed on (lines 486-490, 545-557)
GenChunk(f) ==
    /\ gen.pc = "calling"
    /\ gen.stream
    /\ rpc = "returned"
    /\ Len(gen.full_response) < MaxFragments
    /\ gen' = [gen EXCEPT !.full_response = Append(@, f),
                          !.events = Append(@, "chunk")]
    /\ UNCHANGED retryVars
    /\ UNCHANGED <<uuid_count, db, feedback>>

\* the provider stream raises while it is iterated.  generate_streaming
\* catches it (lines 595-600); stream_and_parse has no handler and the try
\* block of generate was left at "return stream_and_parse()", so the
\* exception reaches the consumer and the record is not touched
GenStreamRaises(e) ==
    /\ gen.pc = "calling"
    /\ gen.stream
    /\ rpc = "returned"
    /\ gen' = IF gen.method = "generate_streaming"
              THEN Failed(gen, [str |-> ErrStr(e)],
                          [kind |-> "event", type |-> "error"])
              ELSE [gen EXCEPT !.pc = "done",
                               !.ret = [kind |-> "raise", error |-> e]]
    /\ UNCHANGED retryVars
    /\ UNCHANGED <<uuid_count, db, feedback>>

\* the provider stream ends.  stream_and_parse completes the record with the
\* raw text (lines 493-498); generate_streaming parses it (lines 560-566,
\* 578-582)
GenStreamEnds ==
    /\ gen.pc = "calling"
    /\ gen.stream
    /\ rpc = "returned"
    /\ LET parsed == ParseResponse(gen.full_response)
       IN gen' =
            IF gen.method = "generate"
            THEN Completed(gen, PyDict([response |-> gen.full_response]),
                           [kind |-> "stop"])
            ELSE IF parsed.ok
                 THEN Completed(gen, parsed.value,
                                [kind |-> "event", type |-> "done"])
                 ELSE Failed(gen, [str |-> "Parse error: ValueError"],
                             [kind |-> "event", type |-> "error"])
    /\ UNCHANGED retryVars
    /\ UNCHANGED <<uuid_count, db, feedback>>

\* the row AgentExecution(**execution_record)
Row(execution_record) ==
    [status |-> execution_record.status,
     output_data |-> execution_record.output_data,
     error_message |-> execution_record.error_message,
     user_accepted |-> PyNone, user_modified |-> PyNone,
     modification_details |-> PyNone]

Put(table, id, row) ==
    [k \in DOMAIN table \cup {id} |-> IF k = id THEN row ELSE table[k]]

\* variant: an exception of the commit leaves _save_execution_record
SaveRaises_propagates(commit_ok) == ~commit_ok

\* _save_execution_record, lines 434-451: "except Exception" logs the error,
\* nothing is raised
SaveRaises(commit_ok) == FALSE

\* await self._save_execution_record(execution_record), then the invocation
\* delivers what it had decided: return parsed_result / raise (lines 513,
\* 521), the end of stream_and_parse, or the done / error item of
\* generate_streaming (lines 569, 585, 602)
SaveExecutionRecord(commit_ok) ==
    /\ gen.pc = "flush"
    /\ db' = IF commit_ok
             THEN Put(db, gen.execution_record.execution_id,
                      Row(gen.execution_record))
             ELSE db
    /\ gen' = [gen EXCEPT
          !.pc = "done",
          !.flushes = @ + 1,
          !.commit_failed = ~commit_ok,
          !.ret = IF SaveRaises(commit_ok)
                  THEN [kind |-> "raise", error |-> "persistence"]
                  ELSE IF gen.primary.kind = "event"
                       THEN [kind |-> "stop"] ELSE gen.primary,
          !.events = IF SaveRaises(commit_ok) \/ gen.primary.kind # "event"
                     THEN @ ELSE Append(@, gen.primary.type)]
    /\ UNCHANGED retryVars
    /\ UNCHANGED <<uuid_count, feedback>>

\* the request bodies of the feedback endpoint
Modifications == {PyNone, PyDict([field |-> "title"])}
\* execution ids a caller can send: the ids handed out, and one never issued
FeedbackIds == {Uuid(i) : i \in 1..uuid_count} \cup {"unknown"}

\* variant: the row is reset to running as well
WithFeedback_resetsStatus(row, accepted, modified, modifications) ==
    [row EXCEPT !.status = "running",
                !.user_accepted = PyBool(accepted),
                !.user_modified = PyBool(modified),
                !.modification_details = modifications]

\* record_execution_feedback, lines 53-55
WithFeedback(row, accepted, modified, modifications) ==
    [row EXCEPT !.user_accepted = PyBool(accepted),
                !.user_modified = PyBool(modified),
                !.modification_details = modifications]

\* POST /api/v1/feedback/execution/{execution_id}: 404 when no row has the
\* id, 500 when the commit fails, otherwise the row carries the feedback
RecordExecutionFeedback(execution_id, accepted, modified, modifications, commit_ok) ==
    /\ feedback.calls < MaxFeedback
    /\ execution_id \in FeedbackIds
    /\ db' = IF execution_id \in DOMAIN db /\ commit_ok
             THEN Put(db, execution_id,
                      WithFeedback(db[execution_id], accepted, modified,
                                   modifications))
             ELSE db
    /\ feedback' = [calls |-> feedback.calls + 1,
                    execution_id |-> execution_id,
                    execution |-> IF execution_id \in DOMAIN db
                                  THEN db[execution_id] ELSE Absent,
                    accepted |-> accepted, modified |-> modified,
                    modifications |-> modifications,
                    status_code |-> IF execution_id \notin DOMAIN db THEN 404
                                    ELSE IF commit_ok THEN 200 ELSE 500]
    /\ UNCHANGED retryVars
    /\ UNCHANGED <<uuid_count, gen>>

\* invocations of a default agent, one after the other
NextRec ==
    \/ Generate
    \/ GenerateStream
    \/ StreamAndParseStarts
    \/ GenerateStreaming
    \/ GenExecutorStep(ErrorKinds)
    \/ \E text \in Texts : GenerateReturned(text)
    \/ GenerateRaised
    \/ \E f \in Fragments : GenChunk(f)
    \/ \E e \in ErrorKinds : GenStreamRaises(e)
    \/ GenStreamEnds
    \/ \E commit_ok \in BOOLEAN : SaveExecutionRecord(commit_ok)

\* blocking invocations that leave rows in the table, and feedback requests
\* arriving at any time
NextFeedback ==
    \/ Generate
    \/ GenExecutorStep({"transient"})
    \/ \E text \in {<<"{}">>, <<"x">>} : GenerateReturned(text)
    \/ GenerateRaised
    \/ \E commit_ok \in BOOLEAN : SaveExecutionRecord(commit_ok)
    \/ \E execution_id \in FeedbackIds, accepted \in BOOLEAN,
          modified \in BOOLEAN, modifications \in Modifications,
          commit_ok \in BOOLEAN :
           RecordExecutionFeedback(execution_id, accepted, modified,
                                   modifications, commit_ok)

(***************************************************************************)
(* parse_response of the stage agents: json.loads and the defaulting.     *)
(* A response is modelled as the JSON document left after the code fences  *)
(* are stripped; dicts are functions from their keys.                      *)
(***************************************************************************)
\* if key not in d: d[key] = value
SetDefault(d, key, value) ==
    [k \in DOMAIN d \cup {key} |-> IF k \in DOMAIN d THEN d[k] ELSE value]

\* d.pop(key)
Without(d, key) == [k \in DOMAIN d \ {key} |-> d[k]]

Has(d, key) == key \in DOMAIN d

\* RequirementAgent.parse_response, lines 157-185
RequiredFields == {"function_points", "business_rules", "data_models",
                   "api_definitions", "test_focus", "risk_points"}
DataModelDefaults(model) ==
    SetDefault(SetDefault(model, "entity", "Unknown"), "fields", <<>>)
ApiDefaults(a) ==
    SetDefault(SetDefault(SetDefault(a, "method", "GET"), "url", ""),
               "description", "")
RequirementDefaults(parsed_json) ==
    LET r == [k \in DOMAIN parsed_json \cup RequiredFields |->
                 IF k \in DOMAIN parsed_json THEN parsed_json[k] ELSE <<>>]
    IN [r EXCEPT
          !["data_models"] = [i \in 1..Len(@) |-> DataModelDefaults(@[i])],
          !["api_definitions"] = [i \in 1..Len(@) |-> ApiDefaults(@[i])]]

\* QualityAgent.parse_response: the suggestion built from an entry of
\* scenario_completeness (lines 203-209); kind stands for the text put in
\* front of the entry
Suggestion(kind, text) == [kind |-> kind, text |-> text]
MergedSuggestions(sc) ==
    (IF Has(sc, "missing_risk_scenarios")
     THEN [i \in 1..Len(sc["missing_risk_scenarios"]) |->
              Suggestion("missing_risk_scenario",
                         sc["missing_risk_scenarios"][i])]
     ELSE <<>>)
    \o
    (IF Has(sc, "defect_related_gaps")
     THEN [i \in 1..Len(sc["defect_related_gaps"]) |->
              Suggestion("defect_related_gap", sc["defect_related_gaps"][i])]
     ELSE <<>>)

\* lines 211-220
CoverageDefaults(coverage) ==
    LET c1 == SetDefault(coverage, "coverage_rate", 0)
        c2 == IF Has(c1, "covered_points") THEN Without(c1, "covered_points")
              ELSE c1
    IN SetDefault(SetDefault(c2, "uncovered_points", <<>>),
                  "missing_scenarios", <<>>)
\* lines 222-229
QualityAnalysisDefaults(quality) ==
    SetDefault(SetDefault(SetDefault(quality, "duplicate_cases", <<>>),
                          "non_smart_cases", <<>>),
               "incomplete_data", <<>>)
\* lines 231-238
ScoreDefaults(score) ==
    SetDefault(SetDefault(SetDefault(score, "coverage_score", 0),
                          "quality_score", 0),
               "total_score", 0)

\* lines 190-197
QualityStructure(parsed_json) ==
    SetDefault(SetDefault(SetDefault(SetDefault(parsed_json,
        "coverage_analysis", <<>>), "quality_analysis", <<>>),
        "suggestions", <<>>), "quality_score", <<>>)

\* variant: scenario_completeness is merged but left in the parsed_json
QualityDefaults_keepsCompleteness(parsed_json) ==
    LET r1 == QualityStructure(parsed_json)
        r2 == IF Has(r1, "scenario_completeness")
              THEN [r1 EXCEPT !["suggestions"] =
                       @ \o MergedSuggestions(r1["scenario_completeness"])]
              ELSE r1
    IN [r2 EXCEPT
          !["coverage_analysis"] = CoverageDefaults(@),
          !["quality_analysis"] = QualityAnalysisDefaults(@),
          !["quality_score"] = ScoreDefaults(@)]

\* QualityAgent.parse_response, lines 190-238
QualityDefaults(parsed_json) ==
    LET r1 == QualityStructure(parsed_json)
        r2 == IF Has(r1, "scenario_completeness")
              THEN [Without(r1, "scenario_completeness")
                       EXCEPT !["suggestions"] =
                           @ \o MergedSuggestions(r1["scenario_completeness"])]
              ELSE r1
    IN [r2 EXCEPT
          !["coverage_analysis"] = CoverageDefaults(@),
          !["quality_analysis"] = QualityAnalysisDefaults(@),
          !["quality_score"] = ScoreDefaults(@)]

\* ScenarioAgent.parse_response: f"S{i+1:03d}" and the name built from i+1
ScenarioId(i) == CASE i = 1 -> "S001" [] i = 2 -> "S002" [] i = 3 -> "S003"
                   [] OTHER -> "S004"
ScenarioName(i) == CASE i = 1 -> "scenario 1" [] i = 2 -> "scenario 2"
                     [] i = 3 -> "scenario 3" [] OTHER -> "scenario 4"
Priorities == {"P0", "P1", "P2"}
\* lines 220-238, for the scenario at position i (from 1)
ScenarioDefaults(scenario, i) ==
    LET s == SetDefault(SetDefault(SetDefault(SetDefault(SetDefault(
             SetDefault(SetDefault(scenario,
                 "scenario_id", ScenarioId(i)),
                 "name", ScenarioName(i)),
                 "description", ""),
                 "precondition", ""),
                 "expected_result", ""),
                 "priority", "P1"),
                 "category", "normal")
    IN IF s["priority"] \notin Priorities THEN [s EXCEPT !["priority"] = "P1"]
       ELSE s

Stages == {"requirement", "quality", "scenario"}

\* parse_response of the stage on a JSON document: the defaulted payload,
\* or the exception.  The dict stages fail on an array when they assign a
\* key (TypeError); the scenario stage rejects what is not an array.
ParseStage(stage, j) ==
    LET loaded == Loads(j)
    IN CASE stage = "requirement" ->
              IF loaded.py # "dict" THEN [ok |-> FALSE, error |-> "TypeError"]
              ELSE [ok |-> TRUE,
                    value |-> PyDict(RequirementDefaults(loaded.v))]
         [] stage = "quality" ->
              IF loaded.py # "dict" THEN [ok |-> FALSE, error |-> "TypeError"]
              ELSE [ok |-> TRUE, value |-> PyDict(QualityDefaults(loaded.v))]
         [] OTHER ->
              IF loaded.py # "list" THEN [ok |-> FALSE, error |-> "ValueError"]
              ELSE [ok |-> TRUE,
                    value |-> PyList([i \in 1..Len(loaded.v) |->
                                 ScenarioDefaults(loaded.v[i], i)])]

\* an optional key: <<>> when the document lacks it, <<value>> otherwise
Opt(values) == {<<>>} \cup {<<v>> : v \in values}
Present(d) == [k \in {x \in DOMAIN d : Len(d[x]) = 1} |-> d[k][1]]
JsonObject(d) == [json |-> "object", v |-> d]
JsonArray(q) == [json |-> "array", v |-> q]

\* the documents a provider answers with, per stage; keys left out of these
\* sets are always missing and get their default.  Each stage also gets a
\* document of the other top-level shape: [] for the dict stages, {} for the
\* scenario stage.
DataModels ==
    {Present(m) : m \in [entity : Opt({"User"}), fields : Opt({<<"id">>})]}
ApiDefinitions ==
    {Present(a) : a \in [method : Opt({"POST"}), url : Opt({"/login"})]}
RequirementDocs ==
    {Present(d) : d \in [function_points : Opt({<<>>, <<"login">>}),
                         data_models : Opt(SeqsUpTo(DataModels, 1)),
                         api_definitions : Opt(SeqsUpTo(ApiDefinitions, 1))]}
CoverageDocs ==
    {Present(c) : c \in [coverage_rate : Opt({80}),
                         covered_points : Opt({<<"login">>})]}
CompletenessDocs ==
    {Present(c) : c \in [missing_risk_scenarios : Opt({<<"timeout">>}),
                         defect_related_gaps : Opt({<<"bug 7">>})]}
QualityDocs ==
    {Present(d) : d \in
        [coverage_analysis : Opt(CoverageDocs),
         suggestions : Opt({<<>>, <<Suggestion("", "add cases")>>}),
         scenario_completeness : Opt(CompletenessDocs),
         quality_score : Opt({[total_score |-> 90]})]}
ScenarioDocs ==
    {Present(s) : s \in [scenario_id : Opt({"S9"}),
                         priority : Opt({"P0", "urgent"})]}

Responses(stage) ==
    CASE stage = "requirement" ->
            {JsonObject(d) : d \in RequirementDocs} \cup {JsonArray(<<>>)}
      [] stage = "quality" ->
            {JsonObject(d) : d \in QualityDocs} \cup {JsonArray(<<>>)}
      [] OTHER ->
            {JsonArray(q) : q \in SeqsUpTo(ScenarioDocs, MaxScenarios)}
                \cup {JsonObject(<<>>)}

NoDoc == [pc |-> "none", stage |-> "none"]

InitParse ==
    \E stage \in Stages :
        \E response \in Responses(stage) :
            doc = [pc |-> "response", stage |-> stage, response |-> response,
                   once |-> PyNone, again |-> PyNone, error |-> "None"]

\* result = agent.parse_response(response)
ParseResponseOnce ==
    /\ doc.pc = "response"
    /\ LET parsed == ParseStage(doc.stage, doc.response)
       IN doc' = IF parsed.ok
                 THEN [doc EXCEPT !.pc = "parsed", !.once = parsed.value]
                 ELSE [doc EXCEPT !.pc = "rejected", !.error = parsed.error]

\* agent.parse_response(json.dumps(result)): the parse step applied to the
\* payload it produced
ParseResponseAgain ==
    /\ doc.pc = "parsed"
    /\ LET parsed == ParseStage(doc.stage, Dumps(doc.once))
       IN doc' = IF parsed.ok
                 THEN [doc EXCEPT !.pc = "parsed_again",
                                  !.again = parsed.value]
                 ELSE [doc EXCEPT !.pc = "rejected_again",
                                  !.error = parsed.error]

NextParse ==
    \/ ParseResponseOnce
    \/ ParseResponseAgain

InitOther ==
    /\ InitStore
    /\ api = ApiIdle
    /\ InitWs
    /\ InitSm
    /\ InitRace
    /\ InitRec

Init == InitRetry /\ InitOther /\ doc = NoDoc

Next == NextRetry /\ UNCHANGED <<store, uuid_count, api, ws, received,
                                 active_connections, sm, opt>>
                  /\ UNCHANGED raceVars /\ UNCHANGED recVars /\ UNCHANGED doc

Spec == Init /\ [][Next]_vars

InitApi == InitAgentDefaults /\ InitOther /\ doc = NoDoc

SpecApi ==
    InitApi /\ [][NextApi /\ UNCHANGED wsVars /\ UNCHANGED smVars
                         /\ UNCHANGED raceVars /\ UNCHANGED recVars /\ UNCHANGED doc]_vars

SpecStream ==
    InitApi /\ [][NextStream /\ UNCHANGED retryVars /\ UNCHANGED apiVars
                             /\ UNCHANGED smVars /\ UNCHANGED raceVars
                             /\ UNCHANGED recVars /\ UNCHANGED doc]_vars

SpecWs ==
    InitApi /\ [][NextWs /\ UNCHANGED retryVars /\ UNCHANGED apiVars
                         /\ UNCHANGED smVars /\ UNCHANGED raceVars
                         /\ UNCHANGED recVars /\ UNCHANGED doc]_vars

SpecStore ==
    InitApi /\ [][NextStore /\ UNCHANGED retryVars /\ UNCHANGED api
                            /\ UNCHANGED wsVars /\ UNCHANGED raceVars
                            /\ UNCHANGED recVars /\ UNCHANGED doc]_vars

SpecRace ==
    InitApi /\ [][NextRace /\ UNCHANGED retryVars /\ UNCHANGED api
                           /\ UNCHANGED wsVars /\ UNCHANGED recVars /\ UNCHANGED doc]_vars

SpecRec ==
    InitApi /\ [][NextRec /\ UNCHANGED <<store, api, doc>>
                          /\ UNCHANGED wsVars /\ UNCHANGED smVars
                          /\ UNCHANGED raceVars]_vars

SpecFeedback ==
    InitApi /\ [][NextFeedback /\ UNCHANGED <<store, api, doc>>
                               /\ UNCHANGED wsVars /\ UNCHANGED smVars
                               /\ UNCHANGED raceVars]_vars

\* The agents as constructed, with one response about to be parsed.
InitResponse == InitAgentDefaults /\ InitOther /\ InitParse

SpecParse ==
    /\ InitResponse
    /\ [][NextParse /\ UNCHANGED retryVars /\ UNCHANGED <<store, uuid_count, api>>
                    /\ UNCHANGED wsVars /\ UNCHANGED smVars
                    /\ UNCHANGED raceVars /\ UNCHANGED recVars]_vars

SpecConv ==
    InitApi /\ [][NextConv /\ UNCHANGED retryVars /\ UNCHANGED api
                           /\ UNCHANGED wsVars /\ UNCHANGED raceVars
                           /\ UNCHANGED recVars /\ UNCHANGED doc]_vars

(***************************************************************************)
(* Properties of the retry/fallback executor                               *)
(***************************************************************************)
CallsAt(d) == {i \in 1..Len(calls) : calls[i].depth = d}
InFlight == rpc \in {"attempt", "backoff"}
\* the primary budget of the current invocation is used up
PrimaryExhausted == Len(frames) > 1 \/ rpc = "raised"

\* C1: attempts are made one at a time in increasing order until the first
\* success.  A success on attempt k of the primary budget returns success
\* after exactly k provider calls and no error; a success is always the last
\* call; when every primary attempt fails exactly max_retries provider calls
\* are made on the primary model before the fallback or the terminal failure.
C1_AttemptsUntilFirstSuccess ==
    /\ \A i \in 1..Len(calls) :
          /\ calls[i].attempt = i - (calls[i].depth - 1) * max_retries
          /\ (i < Len(calls) => calls[i].outcome # "ok")
          /\ (calls[i].depth = 1 => calls[i].model = configured_model)
    /\ Cardinality(CallsAt(1)) <= max_retries
    /\ (rpc = "returned" /\ CallsAt(2) = {}) =>
          /\ result.status = "success"
          /\ result.error = NoError
          /\ result.attempts_used = Len(calls)
          /\ calls[Len(calls)].outcome = "ok"
    /\ PrimaryExhausted =>
          /\ Cardinality(CallsAt(1)) = max_retries
          /\ \A i \in CallsAt(1) : calls[i].outcome \in ErrorKinds
    /\ (InFlight /\ Len(frames) = 1) =>
          \A i \in CallsAt(1) : calls[i].outcome \in ErrorKinds

\* the scenario of the specification: budget 3, attempts 1 and 2 fail,
\* attempt 3 succeeds
C1_Witness ==
    /\ rpc = "returned" /\ ~stream /\ max_retries = 3
    /\ Len(calls) = 3 /\ result.attempts_used = 3
    /\ calls[1].outcome = "timeout" /\ calls[2].outcome = "transient"

\* C2: the fallback budget is entered at most once and only when a fallback
\* is configured that differs from the model in use; one invocation makes at
\* most 2 * max_retries provider calls, every step of the executor is a call
\* or the backoff before the next call, and an exhausted primary budget that
\* ends in an error ran the whole fallback budget exactly when the fallback
\* applies.
C2_OneBoundedFallback ==
    /\ Len(frames) <= 2
    /\ Len(calls) <= 2 * max_retries
    /\ \A i \in 1..Len(calls) : calls[i].depth \in {1, 2}
    /\ Cardinality(CallsAt(2)) <= max_retries
    /\ \A i \in CallsAt(2) : calls[i].model = fallback_model
    /\ (CallsAt(2) # {} \/ Len(frames) = 2) =>
          /\ fallback_model # NoModel
          /\ fallback_model # configured_model
    /\ (fallback_model = NoModel \/ fallback_model = configured_model) =>
          /\ CallsAt(2) = {}
          /\ (rpc = "raised" => Len(calls) = max_retries)
    /\ (rpc = "raised" /\ fallback_model # NoModel
                       /\ fallback_model # configured_model) =>
          Len(calls) = 2 * max_retries
    /\ rpc = "backoff" => Len(calls) < 2 * max_retries

C2_Witness ==
    /\ rpc = "raised"
    /\ fallback_model \notin {NoModel, configured_model}
    /\ max_retries >= 2
    /\ Len(calls) = 2 * max_retries

\* C3: whenever no invocation is in flight the agent's model identifier is
\* the configured one, and every invocation starts on the configured model.
C3_FallbackIsolation ==
    /\ ~InFlight => model_name = configured_model
    /\ frames # <<>> => frames[1].original_model = configured_model
    /\ (InFlight /\ Len(frames) = 1) => model_name = configured_model

\* a second invocation has started after one that switched to the fallback
C3_Witness ==
    /\ switches >= 1 /\ invocations = 2 /\ rpc = "attempt" /\ calls = <<>>

LastOutcomeAt(d) ==
    LET S == CallsAt(d) IN calls[CHOOSE i \in S : \A j \in S : j <= i].outcome

\* C4: when both budgets are exhausted one "both primary and fallback
\* failed" error is raised; its details name both models and carry the
\* string of the primary's last error and the string of the error the
\* fallback budget ended with, after exactly 2 * max_retries provider calls.
C4_BothFailedError ==
    (rpc = "raised" /\ CallsAt(2) # {}) =>
        /\ result.status = "error"
        /\ result.error.type = "LLMAPIError"
        /\ result.error.message = "Both primary and fallback models failed"
        /\ result.error.details.primary_model = configured_model
        /\ result.error.details.fallback_model = fallback_model
        /\ result.error.details.primary_error = ErrStr(LastOutcomeAt(1))
        /\ result.error.details.fallback_error.cause
              = (IF LastOutcomeAt(2) = "timeout" THEN ""
                 ELSE ErrStr(LastOutcomeAt(2)))
        /\ result.error.details.fallback_error.message
              # "Both primary and fallback models failed"
        /\ result.error.details.fallback_error.attempts = max_retries
        /\ Len(calls) = 2 * max_retries

\* budget 2: the error is raised after exactly 4 provider calls
C4_Witness ==
    /\ rpc = "raised" /\ max_retries = 2 /\ Len(calls) = 4
    /\ result.error.message = "Both primary and fallback models failed"
    /\ LastOutcomeAt(1) = "transient" /\ LastOutcomeAt(2) = "other"

\* the failed calls of budget d whose wait is over: every failed attempt but
\* the last of the budget, and but the one whose wait is in progress
WaitedAfter(d) ==
    {i \in CallsAt(d) :
        /\ calls[i].outcome \in ErrorKinds
        /\ calls[i].attempt < max_retries
        /\ ~(rpc = "backoff" /\ i = Len(calls))}
RECURSIVE SecondsOf(_)
SecondsOf(S) ==
    IF S = {} THEN 0
    ELSE LET i == CHOOSE x \in S : TRUE
         IN 2 ^ (calls[i].attempt - 1) + SecondsOf(S \ {i})
\* every attempt of budget d was made and failed
BudgetFailed(d) ==
    /\ Cardinality(CallsAt(d)) = max_retries
    /\ \A i \in CallsAt(d) : calls[i].outcome \in ErrorKinds

\* C13: the seconds slept are 2^(n-1) for every failed attempt n that is not
\* the last of its budget; attempt n+1 exists only once that wait is over;
\* nothing is slept after the last attempt, so a budget of N failing
\* attempts has slept 2^(N-1) - 1 seconds.
C13_ExponentialBackoff ==
    /\ backoff = SecondsOf(WaitedAfter(1)) + SecondsOf(WaitedAfter(2))
    /\ rpc = "backoff" =>
           /\ calls[Len(calls)].outcome \in ErrorKinds
           /\ calls[Len(calls)].attempt < max_retries
           /\ calls[Len(calls)].attempt = Top.attempt + 1
    /\ \A d \in {1, 2} :
           BudgetFailed(d) =>
               SecondsOf(WaitedAfter(d)) = 2 ^ (max_retries - 1) - 1
    /\ (rpc = "raised" /\ CallsAt(2) = {}) =>
           backoff = 2 ^ (max_retries - 1) - 1

\* budget 3, every attempt fails, no fallback: 1 + 2 seconds
C13_Witness ==
    /\ rpc = "raised" /\ max_retries = 3 /\ CallsAt(2) = {}
    /\ Len(calls) = 3 /\ backoff = 3

(***************************************************************************)
(* Properties of the blocking endpoints                                    *)
(***************************************************************************)
ApiDone == api.pc = "responded"
ApiOk == ApiDone /\ api.response.status = "ok"

\* C6: a stage dispatched with a session id that has no metadata does not
\* fail for that reason, and once it has succeeded get_metadata for the id
\* returns a record.
C6_AutoCreation ==
    (ApiDone /\ api.sid_given) =>
        /\ api.response.error_code # "SESSION_EXPIRED"
        /\ (api.response.status = "ok" =>
               GetMetadata(store, api.session_id) # Absent)

\* C7: the session id returned by a first stage dispatched without one
\* names a session of the store whose completed steps hold
\* requirement_analysis.
C7_ReturnedSessionExists ==
    (ApiOk /\ api.stage = "requirement" /\ ~api.sid_given) =>
        LET metadata == GetMetadata(store, api.response.session_id)
        IN /\ metadata # Absent
           /\ InSeq("requirement_analysis", metadata.v.steps_completed)

\* attempt, (backoff, attempt)^(k-1)
RECURSIVE AttemptsTrace(_)
AttemptsTrace(k) ==
    IF k = 1 THEN <<"attempt">>
    ELSE AttemptsTrace(k - 1) \o <<"backoff", "attempt">>

\* C8: a successful stage invocation has made its side effects in the
\* order build, attempts (each after the previous backoff), parse,
\* session-store write, execution-record flush, response.
C8_FixedOrder ==
    ApiOk =>
        \E k \in 1..max_retries :
            api.trace = <<"build">> \o AttemptsTrace(k)
                        \o <<"parse", "write", "flush", "respond">>

\* the parse step of the request rejected the text of the provider
ApiParseRejected ==
    /\ ApiDone
    /\ api.response.status = "error"
    /\ InSeq("parse", api.trace)

TerminalTypes == {"done", "error"}
\* the number of terminal events a channel's socket delivered
RECURSIVE TerminalsIn(_)
TerminalsIn(msgs) ==
    IF msgs = <<>> THEN 0
    ELSE (IF Head(msgs).type \in TerminalTypes THEN 1 ELSE 0)
         + TerminalsIn(Tail(msgs))
RECURSIVE SumOver(_, _)
SumOver(S, c) ==
    IF S = {} THEN 0
    ELSE LET o == CHOOSE x \in S : TRUE
         IN TerminalsIn(received[c][o]) + SumOver(S \ {o}, c)
Terminals(c) == SumOver(Chans, c)
\* the action dispatched on channel c is over and its client never closed
Finished(c) == ws[c].outcome \in TerminalTypes /\ ws[c].client_open

\* C5: a channel never delivers a second terminal event, nothing follows a
\* terminal event of a handler, and a channel whose dispatched action is
\* over has delivered exactly one terminal event.
C5_ExactlyOneTerminal ==
    \A c \in Chans :
        /\ Terminals(c) <= 1
        /\ \A o \in Chans : \A i \in 1..Len(received[c][o]) :
               received[c][o][i].type \in TerminalTypes
                   => i = Len(received[c][o])
        /\ Finished(c) => Terminals(c) = 1

\* the concatenation of a sequence of texts
RECURSIVE Concat(_)
Concat(texts) ==
    IF texts = <<>> THEN <<>> ELSE Head(texts) \o Concat(Tail(texts))

\* C9: when a streamed action ends with done, the fragments emitted as chunk
\* events, concatenated in emission order, are the text given to the parse
\* step (for a stage of several calls: the texts given to it, in order).
C9_StreamingCompletion ==
    \A c \in Chans :
        ws[c].outcome = "done" => ws[c].chunks = Concat(ws[c].parse_inputs)

\* C10: an error event that follows a provider failure of a streamed call is
\* emitted only after the attempt budget of provider requests is used up.
C10_StreamFailureRetried ==
    \A c \in Chans :
        (ws[c].outcome = "error" /\ ws[c].failure \in ErrorKinds)
            => ws[c].requests >= DefaultMaxRetries

\* the parse step of the action on channel c rejected a text it was given
Rejected(c) ==
    \E i \in 1..Len(ws[c].parse_inputs) : ~Parseable(ws[c].parse_inputs[i])

\* C12: an action whose parse step rejected the text of a provider call does
\* not end in done, and no step result is written for it.
C12_MalformedSurfaces ==
    \A c \in Chans :
        Rejected(c) =>
            /\ ws[c].outcome # "done"
            /\ GetStepResult(store, ws[c].session_id, StepOf(ws[c].action))
                   = Absent

\* C14: every done event a channel delivers carries the parsed result of its
\* action, the payload the action wrote to the session store.
C14_DoneCarriesResult ==
    \A c \in Chans : \A o \in Chans : \A i \in 1..Len(received[c][o]) :
        LET message == received[c][o][i]
        IN message.type = "done" =>
              /\ "result" \in DOMAIN message
              /\ message.result =
                     GetStepResult(store, ws[o].session_id,
                                   StepOf(ws[o].action))

\* the dispatch message channel c received lacks action or session_id
BadHandshake(c) ==
    /\ ws[c].pc \notin {"new", "accepted"}
    /\ (ws[c].action \in Missing \/ ws[c].session_id \in Missing)

\* C15: a channel whose first message lacks action or session_id has
\* delivered exactly the one error message and is closed; no handler ran for
\* it (no event of a handler, no provider call) and the session store holds
\* nothing.
C15_Handshake ==
    \A c \in Chans :
        BadHandshake(c) =>
            /\ ws[c].pc = "closed"
            /\ ~ws[c].client_open
            /\ received[c][c] = <<HandshakeErrorMsg(c)>>
            /\ ws[c].attempts = 0
            /\ ws[c].requests = 0
            /\ ws[c].chunks = <<>>
            /\ ws[c].session_id \notin DOMAIN active_connections
            /\ store = <<>>

\* an action but no session id
C15_Witness ==
    /\ ws[1].pc = "closed"
    /\ ws[1].action = "requirement"
    /\ ws[1].session_id = ""
    /\ received[1][1] = <<HandshakeErrorMsg(1)>>

\* the terminal event of channel c's action has been emitted
AfterTerminal(c) == ws[c].outcome \in TerminalTypes

\* a further message of the client has just been received on channel c
FurtherMessage(c) == ws[c].ignored' > ws[c].ignored

StepKeys(st) == {k \in DOMAIN st : k[3] # METADATA_SUFFIX}
\* the key of the SessionManager call just made
CalledKey == MakeKey(sm.session_id, sm.step)
\* key k keeps its expiry over the step
SameExpiry(k) == k \in DOMAIN store' /\ store'[k].ttl = store[k].ttl

\* C17: a get_step_result leaves the expiry of every step entry, the one
\* read included, as it was; a save_step_result gives the entry it writes
\* the full session expiry whatever it had before, and leaves the expiry of
\* the other step entries as it was.
C17_TtlWriteSemantics ==
    [][/\ sm'.op = "get" => \A k \in StepKeys(store) : SameExpiry(k)
       /\ sm'.op = "save" =>
              /\ CalledKey' \in DOMAIN store'
              /\ store'[CalledKey'].ttl = expire_seconds
              /\ \A k \in StepKeys(store) \ {CalledKey'} : SameExpiry(k)]_vars

\* a step was read after time has passed: its expiry was not reset, that of
\* the metadata was
C17_Witness ==
    /\ sm.op = "get"
    /\ sm.ret # Absent
    /\ store[CalledKey].ttl < expire_seconds
    /\ store[MakeKey(sm.session_id, METADATA_SUFFIX)].ttl = expire_seconds

\* C18: a get_step_result on a session whose metadata exists gives the
\* metadata the full expiry, whether the step read is present or not, and
\* extends no step entry.
C18_ReadRefreshesMetadata ==
    [][(sm'.op = "get" /\ GetMetadata(store, sm'.session_id) # Absent) =>
          /\ MakeKey(sm'.session_id, METADATA_SUFFIX) \in DOMAIN store'
          /\ store'[MakeKey(sm'.session_id, METADATA_SUFFIX)].ttl
                 = expire_seconds
          /\ \A k \in StepKeys(store) : SameExpiry(k)]_vars

\* payloads that are JSON values: a tuple is not
JsonPayload(p) == p.py \in {"dict", "list"}

\* C19: a get_step_result returns the payload last saved under the key when
\* the key has not been deleted or expired since and the payload is a JSON
\* value, it returns absent when nothing live is saved under the key, and a
\* get_step_result right after delete_session of the session returns absent.
C19_RoundTrip ==
    /\ [](sm.op = "get" =>
             /\ (CalledKey \in DOMAIN sm.saved /\ JsonPayload(sm.saved[CalledKey]))
                    => sm.ret = sm.saved[CalledKey]
             /\ CalledKey \notin DOMAIN sm.saved => sm.ret = Absent)
    /\ [][(sm.op = "delete" /\ sm'.op = "get"
              /\ sm'.session_id = sm.session_id) => sm'.ret = Absent]_vars

\* the payload of the verification scripts came back
C19_Witness ==
    /\ sm.op = "get"
    /\ CalledKey \in DOMAIN sm.saved
    /\ sm.ret = PyDict([test |-> "data"])

\* sequence a is an initial part of sequence b
IsPrefix(a, b) == Len(a) <= Len(b) /\ SubSeq(b, 1, Len(a)) = a
\* the session has its metadata before and after the step
SessionExists(session_id) ==
    /\ GetMetadata(store, session_id) # Absent
    /\ GetMetadata(store', session_id) # Absent

\* C20: while a session exists every step leaves the entries of its
\* conversation log in place (the log of before is an initial part of the
\* log of after), and an optimize invocation that completes has its entry
\* as the last of the log.
C20_ConversationAppendOnly ==
    [][\A session_id \in SmIds :
          SessionExists(session_id) =>
              /\ IsPrefix(ConversationLog(store, session_id),
                          ConversationLog(store', session_id))
              /\ \A p \in Procs :
                     (opt[p].pc = "save" /\ opt'[p].pc = "idle"
                        /\ opt[p].session_id = session_id) =>
                         ConversationLog(store', session_id) =
                             Append(ConversationLog(store, session_id),
                                    Entry(opt[p].turn))]_vars

(***************************************************************************)
(* Properties of SessionManager calls running at the same time             *)
(***************************************************************************)
AllReturned == \A p \in Procs : task[p].pc = "idle"

\* C21: last-write-wins.  A step key that exists holds exactly the payload
\* of the save_step_result whose write to that key ran last, whole, also
\* when two invocations write the key at the same time.
C21_LastWriteWins ==
    \A key \in DOMAIN hist.written :
        key \in DOMAIN store => store[key].data = Dumps(hist.written[key])

\* two invocations wrote the same key with different payloads while both
\* were running, both have returned, and the key holds the second payload
C21_Witness ==
    /\ AllReturned
    /\ task[1].op = "save" /\ task[2].op = "save"
    /\ task[1].data # task[2].data
    /\ \E key \in hist.raced :
          /\ key = MakeKey(task[1].session_id, task[1].step)
          /\ key = MakeKey(task[2].session_id, task[2].step)
          /\ key \in DOMAIN store
          /\ hist.written[key] = task[2].data
          /\ store[key].data = Dumps(task[2].data)

\* the steps whose save_step_result on the session has returned
StepsSaved(session_id) ==
    {key[3] : key \in {k \in hist.completed : k[2] = session_id}}

NoDuplicates(q) == \A i, j \in 1..Len(q) : q[i] = q[j] => i = j

\* C29: for a session whose metadata exists and that was not deleted, once
\* every save_step_result and get_step_result call has returned,
\* steps_completed holds every step that was saved, each once, and
\* current_step is one of the saved steps.
C29_CompletedStepsKept ==
    \A session_id \in SmIds :
        LET metadata == GetMetadata(store, session_id)
        IN (/\ AllReturned
            /\ metadata # Absent
            /\ session_id \notin hist.deleted)
           => /\ \A step \in StepsSaved(session_id) :
                     InSeq(step, metadata.v.steps_completed)
              /\ NoDuplicates(metadata.v.steps_completed)
              /\ StepsSaved(session_id) # {}
                     => metadata.v.current_step \in StepsSaved(session_id)

\* coroutine p takes a step of a get_step_result call
GetStepTaken(p) == task'[p] # task[p] /\ task'[p].op = "get"

\* C30: a read never creates or resurrects session state: no step of a
\* get_step_result call adds a key to the store, so a session deleted while
\* a read of it is running stays without keys, and a session without
\* metadata stays without metadata.
C30_ReadNeverResurrects ==
    [][\A p \in Procs :
          GetStepTaken(p) => DOMAIN store' \subseteq DOMAIN store]_vars

(***************************************************************************)
(* Properties of the execution records                                     *)
(***************************************************************************)
TerminalStatus == {"completed", "failed"}
\* the invocation, the consumption of its stream included, has ended
GenEnded == gen.pc = "done"

\* C22: an invocation of generate or generate_streaming has one record with
\* a fresh id that starts as running, becomes completed or failed once and
\* never changes again, is flushed once, and is not running any more once
\* the invocation, the consumption of its stream included, has ended.
C22_RecordLifecycle ==
    /\ gen.method # "none" =>
          /\ gen.execution_record.execution_id = Uuid(uuid_count)
          /\ Len(gen.transitions) <= 1
          /\ gen.flushes <= 1
          /\ gen.transitions = <<>> => gen.execution_record.status = "running"
          /\ gen.transitions # <<>> =>
                gen.execution_record.status = gen.transitions[1]
    /\ GenEnded =>
          /\ gen.execution_record.status \in TerminalStatus
          /\ gen.flushes = 1

\* C23: a failure while persisting the record is discarded: the invocation
\* returns, raises or yields what it had decided before the flush, whether
\* the commit succeeded or not, and an invocation that had a result to
\* return is not turned into a failed one.
C23_FlushFailureDiscarded ==
    (GenEnded /\ gen.flushes > 0) =>
        /\ gen.primary.kind \in {"return", "raise", "stop"} =>
              gen.ret = gen.primary
        /\ gen.primary.kind = "event" =>
              /\ gen.ret = [kind |-> "stop"]
              /\ gen.events # <<>>
              /\ gen.events[Len(gen.events)] = gen.primary.type
        /\ gen.execution_record.status = "completed" => gen.ret.kind # "raise"

\* a successful blocking invocation whose commit failed has returned its
\* parsed result, and no row was written for it
C23_Witness ==
    /\ GenEnded
    /\ gen.commit_failed
    /\ gen.method = "generate"
    /\ ~gen.stream
    /\ gen.ret = [kind |-> "return",
                  value |-> ParseResponse(<<"{}">>).value]
    /\ gen.execution_record.execution_id \notin DOMAIN db

\* the step is a record_execution_feedback request
FeedbackTaken == feedback'.calls = feedback.calls + 1

\* the parts of a row that feedback must leave alone
Outcome(row) == [status |-> row.status, output_data |-> row.output_data,
                 error_message |-> row.error_message]

\* C24: feedback on an execution id without a row answers 404 and changes
\* no row; on a known id it changes only user_accepted, user_modified and
\* modification_details of that row, to the values of the request whatever
\* feedback the row carried before, and leaves status, output and all other
\* rows as they were.  (A failed commit answers 500 and changes nothing.)
C24_FeedbackOnlyOnKnownRow ==
    [][FeedbackTaken =>
         LET id == feedback'.execution_id
         IN /\ feedback'.status_code = 404 <=> id \notin DOMAIN db
            /\ id \notin DOMAIN db => db' = db
            /\ id \in DOMAIN db =>
                  /\ DOMAIN db' = DOMAIN db
                  /\ \A k \in DOMAIN db \ {id} : db'[k] = db[k]
                  /\ Outcome(db'[id]) = Outcome(db[id])
                  /\ feedback'.status_code = 200 =>
                        /\ db'[id].user_accepted = PyBool(feedback'.accepted)
                        /\ db'[id].user_modified = PyBool(feedback'.modified)
                        /\ db'[id].modification_details =
                               feedback'.modifications
                  /\ feedback'.status_code # 200 => db' = db]_vars

\* a second feedback request on a row that had been accepted: the row now
\* carries the second request's values and is still completed
C24_Witness ==
    /\ feedback.calls = 2
    /\ feedback.status_code = 200
    /\ feedback.execution.user_accepted = PyBool(TRUE)
    /\ feedback.execution.modification_details # PyNone
    /\ ~feedback.accepted
    /\ db[feedback.execution_id].user_accepted = PyBool(FALSE)
    /\ db[feedback.execution_id].modification_details = PyNone
    /\ db[feedback.execution_id].status = "completed"

(***************************************************************************)
(* Properties of channels and their actions                                *)
(***************************************************************************)
\* the handler of channel c emits an event in this step
Emits(c) ==
    \/ ws[c].pc \in {"start", "progress2", "saving", "complete", "done"}
          /\ ws'[c].pc # ws[c].pc
    \/ Len(ws'[c].chunks) > Len(ws[c].chunks)
    \/ ws[c].outcome # "error" /\ ws'[c].outcome = "error"

\* the handler of channel c emits its done or error event in this step
EmitsTerminal(c) ==
    \/ ws[c].pc = "done" /\ ws'[c].pc = "idle"
    \/ ws[c].outcome # "error" /\ ws'[c].outcome = "error"

\* C27: the events of an action are delivered over the channel that
\* dispatched it and over no other: a channel never receives an event of
\* another channel's action, and every event emitted for a channel whose
\* client is connected arrives on that channel, also when another channel
\* uses the same session id or is closed.
C27_OwnChannelOnly ==
    /\ [](\A c, o \in Chans : c # o => received[c][o] = <<>>)
    /\ [][\A c \in Chans :
             (Emits(c) /\ ws[c].client_open) =>
                 Len(received'[c][c]) = Len(received[c][c]) + 1]_vars

\* the points of websocket_generate at which a stage invocation is running
InFlightPcs == {"start", "progress2", "call", "stream", "saving", "save",
                "complete", "done"}

\* C25: a client that closes its channel while the stage invocation is in
\* flight does not cancel it: the endpoint leaves only from its receive
\* loop, a finished action has its result in the session store, and a
\* terminal event emitted after the client has gone is received by nobody.
C25_CloseDoesNotCancel ==
    /\ [](\A c \in Chans :
             ws[c].outcome = "done" =>
                 MakeKey(ws[c].session_id, StepOf(ws[c].action))
                     \in DOMAIN store)
    /\ [][\A c \in Chans :
             /\ ws[c].pc \in InFlightPcs => ws'[c].pc # "closed"
             /\ (EmitsTerminal(c) /\ ~ws[c].client_open) =>
                    received' = received]_vars

\* a provider call, a parse or the store write of channel c's action failed
StageFailed(c) ==
    \/ ws[c].failure # NoError
    \/ \E i \in 1..Len(ws[c].parse_inputs) : ~Parseable(ws[c].parse_inputs[i])

\* the events of channel c's action that channel c received
OwnEvents(c) == received[c][c]

\* C28: done is emitted only after the stage result was written to the
\* session store; an action in which a provider call, a parse or the store
\* write failed ends with error and never emits done; and an event that
\* follows a progress of 100 is the done event.
C28_DoneOnlyAfterWrite ==
    \A c \in Chans :
        /\ ws[c].outcome = "done" =>
              /\ MakeKey(ws[c].session_id, StepOf(ws[c].action))
                     \in DOMAIN store
              /\ ~StageFailed(c)
        /\ (StageFailed(c) /\ ws[c].pc \in {"idle", "closed"}) =>
              /\ ws[c].outcome = "error"
              /\ \A i \in 1..Len(OwnEvents(c)) : OwnEvents(c)[i].type # "done"
        /\ \A i \in 1..Len(OwnEvents(c)) - 1 :
              OwnEvents(c)[i].progress = 100 =>
                  OwnEvents(c)[i + 1].type = "done"

====
